---- MODULE Spec2Model ----
(***************************************************************************)
(* thermo-cli: board lifecycle (Board Manager), single-shot and streaming  *)
(* collection (get) and the fusion bridge (fuse), as one sequential        *)
(* process with an asynchronous shutdown signal and, for fuse, one child   *)
(* process writing lines into a pipe.                                      *)
(***************************************************************************)
EXTENDS Integers, Sequences, FiniteSets, TLC

(* ---- program constants ------------------------------------------------ *)
MAX_BOARDS == 8
MCC134_NUM_CHANNELS == 4
\* calibration defaults in units of 1e-6 (0.999560 and -38.955465)
DEFAULT_CALIBRATION_SLOPE == 999560
DEFAULT_CALIBRATION_OFFSET == -38955465
DEFAULT_UPDATE_INTERVAL == 1

(* ---- bounds of the model ---------------------------------------------- *)
\* highest board address / channel a source of the explored lists names
MaxAddr == 1
MaxChan == 1
\* longest source list
MaxSources == 3
\* stream ticks started in one run
MaxTicks == 2
\* shutdown signals delivered in one run
MaxSignals == 2
\* lines the child writes, and symbols per line
MaxLines == 2
MaxLineLen == 5
\* char line[4096] of bridge_run, scaled to symbols of the line alphabet
LineBufSize == 5
\* exit codes the child may end with: 0..MaxExit
MaxExit == 2

AllAddr == 0 .. (MAX_BOARDS - 1)
\* the addresses the hardware calls are given: those of the boards and the
\* first number past them, which no command rejects
HwAddr == 0 .. MAX_BOARDS
AllChan == 0 .. (MCC134_NUM_CHANNELS - 1)
SrcAddr == 0 .. MaxAddr
SrcChan == 0 .. MaxChan

VARIABLES
    mode,               \* "single" | "stream" | "fuse": the command being run
    sources,            \* the Source Registry: sequence of ThermalSource
    fields,             \* requested fields (get_serial ... get_interval)
    script,             \* the lines the child process is going to write
    faults,             \* calls the boards of this run can fail: "read", "write";
                        \* "defaults": the boards hold the compiled-in default values
    json_output,        \* --json: output as JSON rather than as a table
    config,             \* the command line or config file the sources come from
    pc,                 \* position of the (single) thread of the process
    i,                  \* loop index of the loop the process is in
    mgrInit,            \* FALSE while the BoardManager struct is uninitialized memory
    opened,             \* mgr->opened[] as the set of addresses flagged
    boards_initialized, \* bridge->boards_initialized
    g_running,          \* the process-wide shutdown flag
    handlers,           \* TRUE once signals_install_handlers has run
    sigCount,           \* signals delivered so far
    hw,                 \* hardware call counters and board state
    ticksOut,           \* dynamic-reading outputs emitted by the stream loop
    sigInfo,            \* what the process was doing when the first signal was handled
    child,              \* "none" | "running" | "exited" | "signaled"
    childCode,          \* exit code of an exited child
    written,            \* lines of the script written so far
    pipe,               \* bytes in the pipe, a sequence of symbols
    rdOpen,             \* the parent holds the read end of the pipe
    line,               \* char line[]: the chunk fgets returned
    thermal,            \* thermal_data being built by get_thermal_data
    out,                \* lines emitted on stdout by the bridge
    readings,           \* the ChannelReading array of the current pass
    board_infos,        \* BoardInfo board_infos[8], indexed by address
    staticOut,          \* static board-info headers emitted by the stream
    result              \* exit status of the command, -1 while running

vars == << mode, sources, fields, script, faults, json_output, config, readings, board_infos,
           staticOut, pc, i, mgrInit, opened, boards_initialized,
           g_running, handlers, sigCount, hw, ticksOut, sigInfo, child, childCode,
           written, pipe, rdOpen, line, thermal, out, result >>

inputVars == << mode, sources, fields, script, faults, json_output, config >>
dataVars == << readings, board_infos, staticOut >>
mgrVars == << mgrInit, opened >>
sigVars == << g_running, handlers, sigCount, sigInfo >>
childVars == << child, childCode, written, pipe, rdOpen >>
lineVars == << line, thermal, out >>

(* ---- the Source Registry ---------------------------------------------- *)
\* snprintf(key, "TEMP_%d_%d", address, channel)
AutoKey(a, c) == "TEMP_" \o ToString(a) \o "_" \o ToString(c)

ThermalSource(k, a, c, s, o, u) ==
    [key |-> k, address |-> a, channel |-> c, tc_type |-> "K", slope |-> s, offset |-> o,
     update_interval |-> u]
\* the source with thermocouple type t
WithType(src, t) == [src EXCEPT !.tc_type = t]

Slopes == {DEFAULT_CALIBRATION_SLOPE, DEFAULT_CALIBRATION_SLOPE + 1}
Offsets == {DEFAULT_CALIBRATION_OFFSET, DEFAULT_CALIBRATION_OFFSET + 1}

SeqsUpTo(S, n) == UNION { [1 .. k -> S] : k \in 0 .. n }
NonEmptySeqsUpTo(S, n) == UNION { [1 .. k -> S] : k \in 1 .. n }

Addresses(srcs) == { srcs[k].address : k \in 1 .. Len(srcs) }

(* ---- hardware service: call counters ---------------------------------- *)
HwInit ==
    [ openCalls  |-> [a \in HwAddr |-> 0],
      closeCalls |-> [a \in HwAddr |-> 0],
      isOpen     |-> {},      \* boards open at the hardware through this run
      everOpen   |-> {},      \* boards whose open succeeded in this run
      calWrites  |-> [a \in HwAddr |-> [c \in AllChan |-> 0]],
      tcWrites   |-> [a \in HwAddr |-> [c \in AllChan |-> 0]],
      ivWrites   |-> [a \in HwAddr |-> << >>],   \* intervals written, in order
      warnings   |-> << >>,   \* failed opens and writes reported on stderr, in order
      reads      |-> << >> ]  \* field reads issued, in order, with their outcome

\* thermo_open(addr) with outcome ok
thermo_open(h, addr, ok) ==
    [h EXCEPT !.openCalls[addr] = @ + 1,
              !.isOpen = IF ok THEN @ \cup {addr} ELSE @,
              !.everOpen = IF ok THEN @ \cup {addr} ELSE @]

\* thermo_close on every address of the set S
thermo_close_all(h, S) ==
    [h EXCEPT !.closeCalls = [a \in HwAddr |-> IF a \in S THEN @[a] + 1 ELSE @[a]],
              !.isOpen = @ \ S]

\* thermo_set_update_interval: the wrapper rejects 0 without touching the board
thermo_set_update_interval(h, addr, interval) ==
    IF interval < 1 \/ interval > 255 THEN h
    ELSE [h EXCEPT !.ivWrites[addr] = Append(@, interval)]

\* thermo_set_calibration_coeffs: the wrapper rejects channel > 3
thermo_set_calibration_coeffs(h, addr, ch) ==
    IF ch > 3 THEN h ELSE [h EXCEPT !.calWrites[addr][ch] = @ + 1]

\* thermo_set_tc_type: the wrapper rejects channel > 3
thermo_set_tc_type(h, addr, ch) ==
    IF ch > 3 THEN h ELSE [h EXCEPT !.tcWrites[addr][ch] = @ + 1]

(* ---- line alphabet of the child's output ------------------------------- *)
\* "{" "}" : braces; "m" : the text of one object member ("a":1), which on
\* its own starts with a JSON string; "x" : a byte that starts no JSON value
Sym == {"{", "}", "m", "x"}
NL == "nl"
AllLines == SeqsUpTo(Sym, MaxLineLen)

NoSig == [ticks |-> -1, pc |-> "none", outLen |-> -1]
Ended == {"done", "killed", "crashed"}

(* ---- ChannelReading and BoardInfo --------------------------------------- *)
\* a slot of a BoardInfo holds "zero" (calloc), "empty" (a string of length
\* 0), "default" (the compiled-in default) or "read" (a value the board gave)
ChannelConfig(date, coeffs) == [cal_date |-> date, cal_coeffs |-> coeffs]
BoardInfo(a, s, u, ch) ==
    [address |-> a, serial |-> s, update_interval |-> u, channels |-> ch]
\* calloc(8, sizeof(BoardInfo)) and BoardInfo board_infos[8] = {0}
BoardInfoZero == BoardInfo(0, "empty", "zero", [c \in AllChan |-> ChannelConfig("empty", "zero")])
\* board_info_init
board_info_init(a) ==
    BoardInfo(a, "empty", "default", [c \in AllChan |-> ChannelConfig("empty", "default")])

\* channel_reading_init
channel_reading_init(a, c) ==
    [address |-> a, channel |-> c,
     has_temp |-> FALSE, has_adc |-> FALSE, has_cjc |-> FALSE]

\* outcomes of a field read at the board (TRUE: RESULT_SUCCESS)
ReadOutcomes == IF "read" \in faults THEN BOOLEAN ELSE {TRUE}
\* the outcomes to consider for field f: a field not requested is not read
OutcomesOf(f) == IF f \in fields THEN ReadOutcomes ELSE {TRUE}

\* thermo_read_temp / _adc / _cjc: the wrapper rejects channel > 3
thermo_read(ch, ok) == ch <= 3 /\ ok

\* one call of a thermo_get_* / thermo_read_* wrapper, as the board sees it:
\* the field, the source it is made for, the tick (0: not in a tick) and
\* the outcome
ReadCall(op, k, tick, ok) == [op |-> op, source |-> k, tick |-> tick, ok |-> ok]

\* (mutant) a requested field is marked present whatever its read returned
HasField_Requested(requested, ok) == requested

\* channel_reading_collect: has_X = 1 when X is requested and its read
\* returned THERMO_SUCCESS
HasField(requested, ok) == requested /\ ok

\* channel_reading_collect
channel_reading_collect(src, t, a, c) ==
    [channel_reading_init(src.address, src.channel) EXCEPT
        !.has_temp = HasField("temp" \in fields, thermo_read(src.channel, t)),
        !.has_adc  = HasField("adc" \in fields, thermo_read(src.channel, a)),
        !.has_cjc  = HasField("cjc" \in fields, thermo_read(src.channel, c))]

\* the reads channel_reading_collect issues for source k, in order
DynamicCalls(src, k, tick, t, a, c) ==
    SelectSeq(<< ReadCall("temp", k, tick, thermo_read(src.channel, t)),
                 ReadCall("adc", k, tick, thermo_read(src.channel, a)),
                 ReadCall("cjc", k, tick, thermo_read(src.channel, c)) >>,
              LAMBDA e : e.op \in fields)

\* (mutant) board_info_collect starts from a fresh BoardInfo every time
CollectBase_Fresh(info, src) == board_info_init(src.address)

\* the BoardInfo board_info_collect works on: re-initialised when it holds
\* another address
CollectBase(info, src) ==
    IF info.address # src.address THEN board_info_init(src.address) ELSE info

\* what a successful read of the update interval or of the calibration
\* coefficients stores: a board that holds the values the program has as
\* compiled-in defaults gives these, any other board a value of its own
BoardValue == IF "defaults" \in faults THEN "default" ELSE "read"

\* the slot after a thermo_get_* call: the return value is not looked at, a
\* failed call leaves the slot as it was
SlotAfter(old, requested, ok) == IF requested /\ ok THEN "read" ELSE old
\* the same for a numeric slot, which takes the value the board holds
ValueAfter(old, requested, ok) == IF requested /\ ok THEN BoardValue ELSE old

\* board_info_collect with the outcomes of its four reads
board_info_collect(info, src, s, u, d, c) ==
    LET base == CollectBase(info, src)
        ch   == src.channel
    IN  [base EXCEPT
           !.serial = SlotAfter(@, "serial" \in fields /\ @ = "empty", s),
           !.update_interval = ValueAfter(@, "interval" \in fields, u),
           !.channels = IF ch < MCC134_NUM_CHANNELS
                        THEN [@ EXCEPT ![ch] =
                                ChannelConfig(SlotAfter(@.cal_date, "cal_date" \in fields, d),
                                              ValueAfter(@.cal_coeffs, "cal_coeffs" \in fields, c))]
                        ELSE @]

\* the reads board_info_collect issues for source k, in order
StaticCalls(info, src, k, s, u, d, c) ==
    LET base == CollectBase(info, src)
    IN  SelectSeq(<< ReadCall("serial", k, 0, s), ReadCall("interval", k, 0, u),
                     ReadCall("cal_date", k, 0, d), ReadCall("cal_coeffs", k, 0, c) >>,
                  LAMBDA e : /\ e.op \in fields
                             /\ e.op = "serial" => base.serial = "empty"
                             /\ e.op \in {"cal_date", "cal_coeffs"} =>
                                  src.channel < MCC134_NUM_CHANNELS)

\* the hardware after the calls cs
Called(h, cs) == [h EXCEPT !.reads = @ \o cs]

\* the elements of a sequence
Range(seq) == { seq[n] : n \in 1 .. Len(seq) }

\* (mutant) every requested reading is printed, read or not
reading_add_to_json_Requested(r) ==
    SelectSeq(<< << "TEMPERATURE", "read" >>, << "ADC", "read" >>, << "CJC", "read" >> >>,
              LAMBDA m : \/ m[1] = "TEMPERATURE" /\ "temp" \in fields
                         \/ m[1] = "ADC" /\ "adc" \in fields
                         \/ m[1] = "CJC" /\ "cjc" \in fields)

\* reading_add_to_json: the members of the dynamic readings that are
\* present, in the order they are added
reading_add_to_json(r) ==
    SelectSeq(<< << "TEMPERATURE", "read" >>, << "ADC", "read" >>, << "CJC", "read" >> >>,
              LAMBDA m : \/ m[1] = "TEMPERATURE" /\ r.has_temp
                         \/ m[1] = "ADC" /\ r.has_adc
                         \/ m[1] = "CJC" /\ r.has_cjc)

\* board_info_add_to_json, in the order the members are added: a string is
\* emitted when not empty, the coefficients when slope or offset is not 0,
\* the interval when above 0
board_info_add_to_json(info, ch) ==
    LET cfg == info.channels[ch]
    IN  SelectSeq(<< << "SERIAL", info.serial >>,
                     << "CALIBRATION.DATE", cfg.cal_date >>,
                     << "CALIBRATION.SLOPE", cfg.cal_coeffs >>,
                     << "UPDATE_INTERVAL", info.update_interval >> >>,
                  LAMBDA m :
                    \/ m[1] = "SERIAL" /\ "serial" \in fields /\ m[2] # "empty"
                    \/ m[1] = "CALIBRATION.DATE" /\ "cal_date" \in fields /\ m[2] # "empty"
                    \/ m[1] = "CALIBRATION.SLOPE" /\ "cal_coeffs" \in fields /\ m[2] # "zero"
                    \/ m[1] = "UPDATE_INTERVAL" /\ "interval" \in fields /\ m[2] # "zero")

\* reading_format_output: the table shows coefficients and interval only
\* when they differ from the compiled-in defaults
board_info_format_output(info, ch) ==
    SelectSeq(board_info_add_to_json(info, ch),
              LAMBDA m : m[1] \in {"CALIBRATION.SLOPE", "UPDATE_INTERVAL"} => m[2] = "read")

\* the shape of the document count readings are printed in: as JSON a flat
\* object for one reading and an array of objects for more; as a table a
\* block per reading, which for one reading has no key and in a stream
\* no heading at all
DocShape(count, streaming) ==
    IF json_output THEN (IF count = 1 THEN "object" ELSE "array")
    ELSE IF count > 1 THEN "blocks"
    ELSE IF streaming THEN "lines" ELSE "block"

\* what identifies the source in its object or block: KEY when the key is
\* not empty, then ADDRESS and CHANNEL of the reading
HeadMembers(shape, src, r) ==
    (IF shape \in {"object", "array", "blocks"} /\ src.key # ""
     THEN << << "KEY", src.key >> >> ELSE << >>)
    \o (IF shape # "lines"
        THEN << << "ADDRESS", ToString(r.address) >>, << "CHANNEL", ToString(r.channel) >> >>
        ELSE << >>)

\* (mutant) the readings are added before the board info
OutputRow_ReadingsFirst(tick, k, shape, src, r, static) ==
    [tick |-> tick, source |-> k, doc |-> shape,
     address |-> r.address, channel |-> r.channel,
     members |-> HeadMembers(shape, src, r) \o reading_add_to_json(r) \o static]

\* reading_with_info_to_json / reading_format_output: what is printed for
\* one source, in order: what identifies it, the board info (when one is
\* passed) and the readings present
OutputRow(tick, k, shape, src, r, static) ==
    [tick |-> tick, source |-> k, doc |-> shape,
     address |-> r.address, channel |-> r.channel,
     members |-> HeadMembers(shape, src, r) \o static \o reading_add_to_json(r)]

\* the board info printed with a reading, in the format of the run
StaticMembers(info, ch) ==
    IF json_output THEN board_info_add_to_json(info, ch)
    ELSE board_info_format_output(info, ch)

(* ---- initial states ---------------------------------------------------- *)
StartPc(m) == CASE m = "single" -> "g_alloc"
                [] m = "stream" -> "bm_begin"
                [] m = "fuse"   -> "f_create"

\* the inputs of a run
InputsWith(modes, srcLists, fieldSets, scripts, faultSets, formats) ==
    /\ mode \in modes
    /\ faults \in faultSets
    /\ json_output \in formats
    /\ sources \in srcLists
    /\ fields \in fieldSets
    /\ script \in scripts

\* a run whose sources are given: no command line or config file is looked at
NoConfig == [command |-> "none", format |-> "none", records |-> << >>,
             address |-> -1, channel |-> -1, key |-> "", tc_type |-> "K"]

\* the state of everything but the inputs and the position of the process
\* when the command function is entered
FreshState ==
    /\ readings = << >>
    /\ board_infos = [a \in AllAddr |-> BoardInfoZero]
    /\ staticOut = << >>
    /\ i = 1
    /\ mgrInit = FALSE
    /\ opened = {}
    /\ boards_initialized = FALSE
    /\ g_running = TRUE
    /\ handlers = FALSE
    /\ sigCount = 0
    /\ hw = HwInit
    /\ ticksOut = 0
    /\ sigInfo = NoSig
    /\ child = "none"
    /\ childCode = -1
    /\ written = 0
    /\ pipe = << >>
    /\ rdOpen = FALSE
    /\ line = << >>
    /\ thermal = << >>
    /\ out = << >>
    /\ result = -1

\* the state in which the command function is entered
InitWith(modes, srcLists, fieldSets, scripts, faultSets, formats) ==
    /\ InputsWith(modes, srcLists, fieldSets, scripts, faultSets, formats)
    /\ config = NoConfig
    /\ FreshState
    /\ pc = StartPc(mode)

(* ---- Board Manager ------------------------------------------------------ *)
\* (mutant) single-shot get goes on collecting after a failed open
InitFailedPc_Continue == CASE mode = "single" -> "g_static"
                           [] mode = "stream" -> "done"
                           [] mode = "fuse"   -> "f_free"

\* (mutant) bridge_run goes on to spawn the child after a failed init
InitFailedPc_Spawn == CASE mode = "single" -> "g_close"
                        [] mode = "stream" -> "done"
                        [] mode = "fuse"   -> "f_pipe"

\* where control goes when board_manager_init returns THERMO_ERROR
InitFailedPc == CASE mode = "single" -> "g_close"   \* collect_channels fails, cmd_get closes
                  [] mode = "stream" -> "done"      \* stream_channels returns 1
                  [] mode = "fuse"   -> "f_free"    \* bridge_run returns 1
\* (mutant) collect_channels reads the dynamic fields first
CollectPhases_DynamicFirst == << "g_dynamic", "g_static" >>

\* collect_channels, lines 136-158: the loop over the board info of every
\* source, then the loop over the readings of every source
CollectPhases == << "g_static", "g_dynamic" >>
\* where collect_channels goes after the loop at p
NextPhase(p) == IF p = CollectPhases[1] THEN CollectPhases[2] ELSE "g_output"

\* where control goes after board_manager_configure
ConfiguredPc == CASE mode = "single" -> CollectPhases[1]
                  [] mode = "stream" -> "s_static"
                  [] mode = "fuse"   -> "f_ready"

\* (mutant) the caller of board_manager_init goes on without configuring
InitReturnPc_SkipConfigure == ConfiguredPc

\* where control goes when board_manager_init returns THERMO_SUCCESS: every
\* caller calls board_manager_configure next
InitReturnPc == "bm_conf"

\* board_manager_init, lines 14-16: memset(mgr->opened, 0), remember the sources
board_manager_init_begin ==
    /\ pc = "bm_begin"
    /\ mgrInit' = TRUE
    /\ opened' = {}
    /\ i' = 1
    /\ pc' = "bm_init"
    /\ UNCHANGED << inputVars, dataVars, boards_initialized, sigVars, hw, ticksOut, childVars,
                    lineVars, result >>

\* the update interval is applied when it is positive and not the default
NeedsInterval(src) ==
    src.update_interval > 0 /\ src.update_interval # DEFAULT_UPDATE_INTERVAL

\* (mutant) every source opens its board, flagged or not
MustOpen_NoDedup(op, src) == TRUE

\* the source's board is not yet flagged open: it has to be opened
MustOpen(op, src) == src.address \notin op

\* what the test of mgr->opened[addr] at line 22 can find (TRUE: flagged):
\* the flag of the board, or, for an address past the eight flags, whatever
\* the memory behind the array holds
OpenedFlags(op, src) ==
    IF src.address < MAX_BOARDS THEN {~MustOpen(op, src)} ELSE BOOLEAN

\* outcomes of a configuration write (TRUE: THERMO_SUCCESS)
WriteOutcomes == IF "write" \in faults THEN BOOLEAN ELSE {TRUE}

\* a call made for source k that did not succeed is reported on stderr
Warned(h, k, what, ok) ==
    IF ok THEN h ELSE [h EXCEPT !.warnings = Append(@, [source |-> k, what |-> what])]

\* (mutant) a failed interval write leaves the board closed
OpenedBoard_ClosedOnFailure(h, src, k, okIv) ==
    IF NeedsInterval(src)
    THEN Warned(thermo_set_update_interval(thermo_open(h, src.address, okIv),
                                           src.address, src.update_interval),
                k, "interval", okIv)
    ELSE thermo_open(h, src.address, TRUE)

\* the hardware after a successful open of the board of src, source k of the
\* list; okIv is the outcome of the interval write, if one is made
OpenedBoard(h, src, k, okIv) ==
    IF NeedsInterval(src)
    THEN Warned(thermo_set_update_interval(thermo_open(h, src.address, TRUE),
                                           src.address, src.update_interval),
                k, "interval", okIv)
    ELSE thermo_open(h, src.address, TRUE)

\* (mutant) board_manager_close skips the board with the lowest address
CloseSet_SkipFirst(op) == { a \in AllAddr : a \in op /\ \E b \in op : b < a }

\* the boards board_manager_close passes to thermo_close
CloseSet(op) == { a \in AllAddr : a \in op }

\* board_manager_init, one iteration of the loop of lines 19-42
board_manager_init_step ==
    /\ pc = "bm_init"
    /\ i <= Len(sources)
    /\ LET src == sources[i] IN
       \E flagged \in OpenedFlags(opened, src) :
        IF flagged
        THEN /\ i' = i + 1
             /\ UNCHANGED << pc, opened, hw, result >>
        ELSE \E ok \in BOOLEAN :
             IF ok
             THEN /\ \E okIv \in (IF NeedsInterval(src) THEN WriteOutcomes ELSE {TRUE}) :
                       hw' = OpenedBoard(hw, src, i, okIv)
                  /\ opened' = opened \cup {src.address}
                  /\ i' = i + 1
                  /\ UNCHANGED << pc, result >>
             ELSE \* open failed: board_manager_close(mgr), return THERMO_ERROR
                  /\ hw' = Warned(thermo_close_all(thermo_open(hw, src.address, FALSE),
                                                   CloseSet(opened)),
                                  i, "open", FALSE)
                  /\ opened' = {}
                  /\ pc' = InitFailedPc
                  /\ result' = 1
                  /\ i' = 1
    /\ UNCHANGED << inputVars, dataVars, mgrInit, boards_initialized, sigVars, ticksOut, childVars,
                    lineVars >>

\* board_manager_init, line 44: return THERMO_SUCCESS
board_manager_init_return ==
    /\ pc = "bm_init"
    /\ i > Len(sources)
    /\ pc' = InitReturnPc
    /\ i' = 1
    /\ UNCHANGED << inputVars, dataVars, mgrVars, boards_initialized, sigVars, hw, ticksOut,
                    childVars, lineVars, result >>

\* (mutant) only a pair that differs in both coefficients counts
CalDiffers_Both(src) ==
    /\ src.slope # DEFAULT_CALIBRATION_SLOPE
    /\ src.offset # DEFAULT_CALIBRATION_OFFSET

\* the calibration pair of the source is not the compiled-in default pair
CalDiffers(src) ==
    \/ src.slope # DEFAULT_CALIBRATION_SLOPE
    \/ src.offset # DEFAULT_CALIBRATION_OFFSET

\* (mutant) a failed calibration write ends the handling of the source
Configured_StopOnFailure(h, src, k, okCal, okTc) ==
    IF CalDiffers(src) /\ ~okCal
    THEN Warned(thermo_set_calibration_coeffs(h, src.address, src.channel), k, "cal", okCal)
    ELSE Warned(thermo_set_tc_type(
                    IF CalDiffers(src)
                    THEN thermo_set_calibration_coeffs(h, src.address, src.channel)
                    ELSE h,
                    src.address, src.channel),
                k, "tc", okTc)

\* the hardware after board_manager_configure has handled source k of the
\* list, with the outcomes of its calibration write (if made) and type write
Configured(h, src, k, okCal, okTc) ==
    Warned(thermo_set_tc_type(
               IF CalDiffers(src)
               THEN Warned(thermo_set_calibration_coeffs(h, src.address, src.channel),
                           k, "cal", okCal)
               ELSE h,
               src.address, src.channel),
           k, "tc", okTc)

\* board_manager_configure, one iteration of the loop of lines 49-71
board_manager_configure_step ==
    /\ pc = "bm_conf"
    /\ i <= Len(sources)
    /\ \E okCal \in (IF CalDiffers(sources[i]) THEN WriteOutcomes ELSE {TRUE}),
          okTc \in WriteOutcomes :
         hw' = Configured(hw, sources[i], i, okCal, okTc)
    /\ i' = i + 1
    /\ UNCHANGED << inputVars, dataVars, pc, mgrVars, boards_initialized, sigVars, ticksOut,
                    childVars, lineVars, result >>

\* board_manager_configure, line 73: return THERMO_SUCCESS
board_manager_configure_return ==
    /\ pc = "bm_conf"
    /\ i > Len(sources)
    /\ pc' = ConfiguredPc
    /\ i' = 1
    /\ UNCHANGED << inputVars, dataVars, mgrVars, boards_initialized, sigVars, hw, ticksOut,
                    childVars, lineVars, result >>

\* (mutant) board_manager_close leaves the opened[] flags set
board_manager_close_KeepFlags(op) ==
    /\ hw' = thermo_close_all(hw, CloseSet(op))
    /\ opened' = op

\* board_manager_close on a manager whose opened[] holds the set op
board_manager_close(op) ==
    /\ hw' = thermo_close_all(hw, CloseSet(op))
    /\ opened' = {}

board_manager_open_count == Cardinality({ a \in AllAddr : a \in opened })
board_manager_is_open(a) == a < MAX_BOARDS /\ a \in opened

BoardManager ==
    \/ board_manager_init_begin
    \/ board_manager_init_step
    \/ board_manager_init_return
    \/ board_manager_configure_step
    \/ board_manager_configure_return

(* ---- get: single-shot collection ---------------------------------------- *)
StaticFields == {"serial", "cal_date", "cal_coeffs", "interval"}

\* collect_channels, lines 111-125: the two callocs; on failure it returns
\* THERMO_ERROR before board_manager_init has touched mgr
collect_channels_alloc ==
    /\ pc = "g_alloc"
    /\ \E okReadings, okInfos \in BOOLEAN :
         IF okReadings /\ okInfos
         THEN pc' = "bm_begin" /\ result' = result
         ELSE pc' = "g_close" /\ result' = 1
    /\ UNCHANGED << inputVars, dataVars, i, mgrVars, boards_initialized, sigVars, hw, ticksOut,
                    childVars, lineVars >>

\* collect_channels, lines 138-149: board info of one source; the board's
\* BoardInfo is initialised at the first source of its address
collect_channels_static ==
    /\ pc = "g_static"
    /\ IF i <= Len(sources)
       THEN LET src  == sources[i]
                seen == \E k \in 1 .. i - 1 : sources[k].address = src.address
                info == IF seen THEN board_infos[src.address]
                        ELSE board_info_init(src.address)
            IN  \E s \in OutcomesOf("serial"), u \in OutcomesOf("interval"),
                   d \in OutcomesOf("cal_date"), c \in OutcomesOf("cal_coeffs") :
                  /\ board_infos' = [board_infos EXCEPT ![src.address] =
                                        board_info_collect(info, src, s, u, d, c)]
                  /\ hw' = Called(hw, StaticCalls(info, src, i, s, u, d, c))
                  /\ i' = i + 1
                  /\ pc' = pc
       ELSE i' = 1 /\ pc' = NextPhase("g_static") /\ UNCHANGED << board_infos, hw >>
    /\ UNCHANGED << inputVars, readings, staticOut, mgrVars, boards_initialized, sigVars,
                    ticksOut, childVars, lineVars, result >>

\* collect_channels, lines 152-160: dynamic reading of one source, then return
collect_channels_dynamic ==
    /\ pc = "g_dynamic"
    /\ IF i <= Len(sources)
       THEN \E t \in OutcomesOf("temp"), a \in OutcomesOf("adc"), c \in OutcomesOf("cjc") :
              /\ readings' = Append(readings, channel_reading_collect(sources[i], t, a, c))
              /\ hw' = Called(hw, DynamicCalls(sources[i], i, 0, t, a, c))
              /\ i' = i + 1
              /\ pc' = pc
       ELSE i' = 1 /\ pc' = NextPhase("g_dynamic") /\ UNCHANGED << readings, hw >>
    /\ UNCHANGED << inputVars, board_infos, staticOut, mgrVars, boards_initialized, sigVars,
                    ticksOut, childVars, lineVars, result >>

\* cmd_get, lines 555-561: print the collected data, one row per reading
\* with the board info of its address
cmd_get_output ==
    /\ pc = "g_output"
    /\ out' = [k \in 1 .. Len(readings) |->
                 OutputRow(0, k, DocShape(Len(readings), FALSE), sources[k], readings[k],
                           StaticMembers(board_infos[readings[k].address],
                                         readings[k].channel))]
    /\ pc' = "g_close"
    /\ result' = 0
    /\ UNCHANGED << inputVars, dataVars, i, mgrVars, boards_initialized, sigVars, hw, ticksOut,
                    childVars, line, thermal >>

\* the content of mgr.opened[] that cmd_get's board_manager_close may find:
\* what board_manager_init left, or anything when init never ran (mgr is an
\* uninitialized automatic variable of cmd_get)
MgrContents(isInit, op) == IF isInit THEN {op} ELSE SUBSET AllAddr

\* cmd_get, lines 567-574: board_manager_close(&mgr); return result
cmd_get_close ==
    /\ pc = "g_close"
    /\ \E op \in MgrContents(mgrInit, opened) : board_manager_close(op)
    /\ pc' = "done"
    /\ UNCHANGED << inputVars, dataVars, i, mgrInit, boards_initialized, sigVars, ticksOut,
                    childVars, lineVars, result >>

GetSingle ==
    \/ collect_channels_alloc
    \/ collect_channels_static
    \/ collect_channels_dynamic
    \/ cmd_get_output
    \/ cmd_get_close

(* ---- get: streaming ------------------------------------------------------ *)
\* stream_channels, lines 257-267: static board info once, one source per
\* step; skipped when no static field is requested
stream_static ==
    /\ pc = "s_static"
    /\ fields \cap StaticFields # {}
    /\ i <= Len(sources)
    /\ LET src  == sources[i]
           seen == \E k \in 1 .. i - 1 : sources[k].address = src.address
           info == IF seen THEN board_infos[src.address]
                   ELSE board_info_init(src.address)
       IN  \E s \in OutcomesOf("serial"), u \in OutcomesOf("interval"),
              d \in OutcomesOf("cal_date"), c \in OutcomesOf("cal_coeffs") :
             /\ board_infos' = [board_infos EXCEPT ![src.address] =
                                   board_info_collect(info, src, s, u, d, c)]
             /\ hw' = Called(hw, StaticCalls(info, src, i, s, u, d, c))
    /\ i' = i + 1
    /\ UNCHANGED << inputVars, readings, staticOut, pc, mgrVars, boards_initialized, sigVars,
                    ticksOut, childVars, lineVars, result >>

\* the header: one row per source with its static fields and no reading
StaticHeader ==
    [k \in 1 .. Len(sources) |->
        OutputRow(0, k, DocShape(Len(sources), TRUE), sources[k],
                  channel_reading_init(sources[k].address, sources[k].channel),
                  StaticMembers(board_infos[sources[k].address], sources[k].channel))]

\* (mutant) the header is never printed
HeaderPrinted_Never(okAlloc) == FALSE

\* stream_channels, lines 269-325: the JSON header is built from a calloc'ed
\* array of readings and is left out when that calloc fails; the table
\* header is printed in any case
HeaderPrinted(okAlloc) == json_output => okAlloc

\* stream_channels, lines 269-325: the static info header, once the static
\* info of every source is collected
stream_header ==
    /\ pc = "s_static"
    /\ \/ fields \cap StaticFields = {}
       \/ i > Len(sources)
    /\ IF fields \cap StaticFields # {}
       THEN \E okAlloc \in BOOLEAN :
              staticOut' = IF HeaderPrinted(okAlloc)
                           THEN Append(staticOut, StaticHeader)
                           ELSE staticOut
       ELSE staticOut' = staticOut
    /\ i' = 1
    /\ pc' = "s_install"
    /\ UNCHANGED << inputVars, readings, board_infos, mgrVars, boards_initialized, sigVars, hw,
                    ticksOut, childVars, lineVars, result >>

\* stream_channels, line 339: signals_install_handlers()
stream_install ==
    /\ pc = "s_install"
    /\ handlers' = TRUE
    /\ pc' = "s_check"
    /\ UNCHANGED << inputVars, dataVars, i, mgrVars, boards_initialized, g_running, sigCount,
                    sigInfo, hw, ticksOut, childVars, lineVars, result >>

\* (mutant) the streaming loop ignores the flag
StreamContinues_Always(running) == TRUE

\* the loop guard of the streaming loop
StreamContinues(running) == running

\* stream_channels, line 342: while (g_running)
stream_check ==
    /\ pc = "s_check"
    /\ IF StreamContinues(g_running)
       THEN ticksOut < MaxTicks /\ pc' = "s_alloc"
       ELSE pc' = "s_close"
    /\ UNCHANGED << inputVars, dataVars, i, mgrVars, boards_initialized, sigVars, hw, ticksOut,
                    childVars, lineVars, result >>

\* stream_channels, lines 343-348: calloc of the tick's readings; on failure
\* board_manager_close and return 1
stream_alloc ==
    /\ pc = "s_alloc"
    /\ \E ok \in BOOLEAN :
         IF ok
         THEN /\ pc' = "s_collect"
              /\ i' = 1
              /\ readings' = << >>
              /\ UNCHANGED << opened, hw, result >>
         ELSE /\ board_manager_close(opened)
              /\ pc' = "done"
              /\ result' = 1
              /\ UNCHANGED << i, readings >>
    /\ UNCHANGED << inputVars, board_infos, staticOut, mgrInit, boards_initialized, sigVars,
                    ticksOut, childVars, lineVars >>

\* stream_channels, lines 351-355: channel_reading_collect of one source
stream_collect ==
    /\ pc = "s_collect"
    /\ IF i <= Len(sources)
       THEN \E t \in OutcomesOf("temp"), a \in OutcomesOf("adc"), c \in OutcomesOf("cjc") :
              /\ readings' = Append(readings, channel_reading_collect(sources[i], t, a, c))
              /\ hw' = Called(hw, DynamicCalls(sources[i], i, ticksOut + 1, t, a, c))
              /\ i' = i + 1
              /\ pc' = pc
       ELSE i' = 1 /\ pc' = "s_output" /\ UNCHANGED << readings, hw >>
    /\ UNCHANGED << inputVars, board_infos, staticOut, mgrVars, boards_initialized, sigVars,
                    ticksOut, childVars, lineVars, result >>

\* stream_channels, lines 358-413: print the tick's readings source by
\* source, without board info, then free them
stream_output ==
    /\ pc = "s_output"
    /\ IF i <= Len(sources)
       THEN /\ out' = Append(out, OutputRow(ticksOut + 1, i, DocShape(Len(sources), TRUE),
                                                sources[i], readings[i], << >>))
            /\ i' = i + 1
            /\ UNCHANGED << pc, ticksOut >>
       ELSE /\ ticksOut' = ticksOut + 1
            /\ i' = 1
            /\ pc' = "s_sleep"
            /\ out' = out
    /\ UNCHANGED << inputVars, dataVars, mgrVars, boards_initialized, sigVars, hw, childVars,
                    line, thermal, result >>

\* stream_channels, line 414: nanosleep returns (period over, or interrupted)
stream_sleep ==
    /\ pc = "s_sleep"
    /\ pc' = "s_check"
    /\ UNCHANGED << inputVars, dataVars, i, mgrVars, boards_initialized, sigVars, hw, ticksOut,
                    childVars, lineVars, result >>

\* (mutant) stream_channels returns without closing the boards
stream_close_KeepOpen ==
    /\ pc = "s_close"
    /\ pc' = "done"
    /\ result' = 0
    /\ UNCHANGED << inputVars, dataVars, i, mgrVars, boards_initialized, sigVars, hw, ticksOut,
                    childVars, lineVars >>

\* stream_channels, lines 417-418: board_manager_close(&mgr); return 0
stream_close ==
    /\ pc = "s_close"
    /\ board_manager_close(opened)
    /\ pc' = "done"
    /\ result' = 0
    /\ UNCHANGED << inputVars, dataVars, i, mgrInit, boards_initialized, sigVars, ticksOut,
                    childVars, lineVars >>

GetStream ==
    \/ stream_static
    \/ stream_header
    \/ stream_install
    \/ stream_check
    \/ stream_alloc
    \/ stream_collect
    \/ stream_output
    \/ stream_sleep
    \/ stream_close

(* ---- shutdown signal (SIGINT / SIGTERM) ---------------------------------- *)
\* shutdown_handler: g_running = 0
shutdown_handler(running) == FALSE

SigSeen == IF sigInfo = NoSig
           THEN [ticks |-> ticksOut, pc |-> pc, outLen |-> Len(out)]
           ELSE sigInfo

\* a signal before signals_install_handlers: the default action ends the process
signal_default ==
    /\ pc \notin Ended
    /\ sigCount < MaxSignals
    /\ ~handlers
    /\ sigCount' = sigCount + 1
    /\ pc' = "killed"
    /\ UNCHANGED << inputVars, dataVars, i, mgrVars, boards_initialized, g_running, handlers,
                    sigInfo, hw, ticksOut, childVars, lineVars, result >>

\* a signal after signals_install_handlers: the handler runs and the process
\* goes on where it was (a timed sleep it interrupts just ends early)
signal_handled ==
    /\ pc \notin Ended
    /\ sigCount < MaxSignals
    /\ handlers
    /\ sigCount' = sigCount + 1
    /\ g_running' = shutdown_handler(g_running)
    /\ sigInfo' = SigSeen
    /\ UNCHANGED << inputVars, dataVars, pc, i, mgrVars, boards_initialized, handlers, hw,
                    ticksOut, childVars, lineVars, result >>

(* ---- fuse: the bridge ----------------------------------------------------- *)
\* bridge_create: three unchecked mallocs; a failed one is dereferenced
bridge_create ==
    /\ pc = "f_create"
    /\ \E ok \in BOOLEAN :
         IF ok THEN pc' = "bm_begin" ELSE pc' = "crashed"
    /\ boards_initialized' = FALSE
    /\ UNCHANGED << inputVars, dataVars, i, mgrVars, sigVars, hw, ticksOut, childVars, lineVars,
                    result >>

\* bridge_init_boards, lines 82-86, after init and configure succeeded
bridge_init_boards_done ==
    /\ pc = "f_ready"
    /\ boards_initialized' = TRUE
    /\ pc' = "f_pipe"
    /\ UNCHANGED << inputVars, dataVars, i, mgrVars, sigVars, hw, ticksOut, childVars, lineVars,
                    result >>

\* bridge_run, lines 186-190: pipe()
bridge_pipe ==
    /\ pc = "f_pipe"
    /\ \E ok \in BOOLEAN :
         IF ok THEN pc' = "f_fork" /\ result' = result
               ELSE pc' = "f_free" /\ result' = 1
    /\ UNCHANGED << inputVars, dataVars, i, mgrVars, boards_initialized, sigVars, hw, ticksOut,
                    childVars, lineVars >>

\* bridge_run, lines 192-222: fork(); the parent closes the write end
bridge_fork ==
    /\ pc = "f_fork"
    /\ \E ok \in BOOLEAN :
         IF ok THEN /\ pc' = "f_fdopen"
                    /\ child' = "running"
                    /\ rdOpen' = TRUE
                    /\ result' = result
               ELSE /\ pc' = "f_free"
                    /\ result' = 1
                    /\ UNCHANGED << child, rdOpen >>
    /\ UNCHANGED << inputVars, dataVars, i, mgrVars, boards_initialized, sigVars, hw, ticksOut,
                    childCode, written, pipe, lineVars >>

\* bridge_run, lines 224-228: fdopen(); on failure return 1 without waiting
bridge_fdopen ==
    /\ pc = "f_fdopen"
    /\ \E ok \in BOOLEAN :
         IF ok THEN pc' = "f_install" /\ result' = result
               ELSE pc' = "f_free" /\ result' = 1
    /\ UNCHANGED << inputVars, dataVars, i, mgrVars, boards_initialized, sigVars, hw, ticksOut,
                    childVars, lineVars >>

\* bridge_run, line 231: signals_install_handlers()
bridge_install ==
    /\ pc = "f_install"
    /\ handlers' = TRUE
    /\ pc' = "f_check"
    /\ UNCHANGED << inputVars, dataVars, i, mgrVars, boards_initialized, g_running, sigCount,
                    sigInfo, hw, ticksOut, childVars, lineVars, result >>

\* bridge_run, line 235: the g_running half of the loop condition
bridge_check ==
    /\ pc = "f_check"
    /\ pc' = IF g_running THEN "f_fgets" ELSE "f_fclose"
    /\ UNCHANGED << inputVars, dataVars, i, mgrVars, boards_initialized, sigVars, hw, ticksOut,
                    childVars, lineVars, result >>

\* position of the first newline of p, 0 when it has none
FirstNL(p) ==
    IF \E k \in 1 .. Len(p) : p[k] = NL
    THEN CHOOSE k \in 1 .. Len(p) : p[k] = NL /\ \A j \in 1 .. (k - 1) : p[j] # NL
    ELSE 0

\* how many symbols fgets(line, sizeof(line), fp) takes from the stream p:
\* up to and including the first newline, at most sizeof(line) - 1
FgetsLen(p) ==
    LET n == FirstNL(p)
        lim == LineBufSize - 1
    IN  IF n # 0 /\ n <= lim THEN n
        ELSE IF Len(p) < lim THEN Len(p) ELSE lim

\* the write end of the pipe is still held by a running child
WriteEndOpen == child = "running"

\* bridge_run, line 235: fgets returns a chunk, or NULL at end-of-file
bridge_fgets ==
    /\ pc = "f_fgets"
    /\ IF pipe # << >>
       THEN /\ line' = SubSeq(pipe, 1, FgetsLen(pipe))
            /\ pipe' = SubSeq(pipe, FgetsLen(pipe) + 1, Len(pipe))
            /\ pc' = "f_line"
       ELSE /\ ~WriteEndOpen
            /\ pc' = "f_fclose"
            /\ UNCHANGED << line, pipe >>
    /\ UNCHANGED << inputVars, dataVars, i, mgrVars, boards_initialized, sigVars, hw, ticksOut,
                    child, childCode, written, rdOpen, thermal, out, result >>

\* a handled signal while fgets is blocked in read(): EINTR, fgets returns NULL
\* (sa_flags has no SA_RESTART)
signal_interrupts_fgets ==
    /\ pc = "f_fgets"
    /\ pipe = << >>
    /\ WriteEndOpen
    /\ sigCount < MaxSignals
    /\ handlers
    /\ sigCount' = sigCount + 1
    /\ g_running' = shutdown_handler(g_running)
    /\ sigInfo' = SigSeen
    /\ pc' = "f_fclose"
    /\ UNCHANGED << inputVars, dataVars, i, mgrVars, boards_initialized, handlers, hw, ticksOut,
                    childVars, lineVars, result >>

\* bridge_run, lines 237-240: remove the trailing newline
StripNL(l) ==
    IF Len(l) > 0 /\ l[Len(l)] = NL THEN SubSeq(l, 1, Len(l) - 1) ELSE l

\* cJSON_Parse(line): the first JSON value of the text, whatever follows it
\* (cJSON_Parse does not require the value to end the string)
ObjectEnd(l) ==
    IF Len(l) >= 2 /\ l[1] = "{" /\
       \E k \in 2 .. Len(l) : l[k] = "}" /\ \A j \in 2 .. (k - 1) : l[j] = "m"
    THEN CHOOSE k \in 2 .. Len(l) : l[k] = "}" /\ \A j \in 2 .. (k - 1) : l[j] = "m"
    ELSE 0
\* "[" "]" : brackets; "v" : the text of a number
ArrayEnd(l) ==
    IF Len(l) >= 2 /\ l[1] = "[" /\
       \E k \in 2 .. Len(l) : l[k] = "]" /\ \A j \in 2 .. (k - 1) : l[j] = "v"
    THEN CHOOSE k \in 2 .. Len(l) : l[k] = "]" /\ \A j \in 2 .. (k - 1) : l[j] = "v"
    ELSE 0
Member(n, k, r) == [name |-> n, kind |-> k, readings |-> r]
cJSON_Parse(l) ==
    IF ObjectEnd(l) # 0
    THEN [type |-> "object",
          members |-> [k \in 1 .. (ObjectEnd(l) - 2) |-> Member("m", "orig", << >>)]]
    ELSE IF ArrayEnd(l) # 0
    THEN [type |-> "array",
          members |-> [k \in 1 .. (ArrayEnd(l) - 2) |-> Member("v", "orig", << >>)]]
    ELSE IF Len(l) >= 1 /\ l[1] = "m"
    THEN [type |-> "string", members |-> << >>]
    ELSE IF Len(l) >= 1 /\ l[1] = "v"
    THEN [type |-> "number", members |-> << >>]
    ELSE [type |-> "invalid", members |-> << >>]

\* what the bridge writes to stdout: the text of a line, or a printed JSON value;
\* either is followed by one newline
Raw(l) == [kind |-> "raw", type |-> "none", bytes |-> l, members |-> << >>]
\* cJSON_PrintUnformatted: an object prints its members and an array its
\* elements (the items of its child list), a string or a number only itself
cJSON_PrintUnformatted(v) ==
    [kind |-> "json", type |-> v.type, bytes |-> << >>,
     members |-> IF v.type \in {"object", "array"} THEN v.members ELSE << >>]


\* get_thermal_data: the value stored for one read
ReadingValue(ok) == IF ok THEN "value" ELSE "NaN"
\* get_thermal_data, lines 94-125: the sub-object of one source
SourceData(src, t, a, c) ==
    [key |-> src.key, TEMP |-> ReadingValue(t), ADC |-> ReadingValue(a),
     CJC |-> ReadingValue(c)]

\* get_thermal_data, lines 101-121: the mcc134_t_in_read, mcc134_a_in_read and
\* mcc134_cjc_read calls made for source k while line number n is handled
AcquisitionCalls(k, n, t, a, c) ==
    << ReadCall("temp", k, n, t), ReadCall("adc", k, n, a), ReadCall("cjc", k, n, c) >>

\* inject_json: TIMESTAMP, then THERMOCOUPLE holding a copy of every reading;
\* cJSON_AddItemToObject appends to the child list of the value it is given,
\* whatever the type of that value
inject_json(v, data) ==
    [v EXCEPT !.members = @ \o << Member("TIMESTAMP", "string", << >>),
                                  Member("THERMOCOUPLE", "object", data) >>]

\* bridge_run, lines 236-254 and 267-271: strip the newline, echo an empty
\* line, take the timestamp, parse; a line that does not parse is printed as is
bridge_line ==
    /\ pc = "f_line"
    /\ line' = StripNL(line)
    /\ IF Len(line') = 0
       THEN /\ out' = Append(out, Raw(<< >>))
            /\ pc' = "f_check"
            /\ UNCHANGED << i, thermal >>
       ELSE IF cJSON_Parse(line').type # "invalid"
       THEN /\ pc' = "f_acquire"
            /\ i' = 1
            /\ thermal' = << >>
            /\ out' = out
       ELSE /\ out' = Append(out, Raw(line'))
            /\ pc' = "f_check"
            /\ UNCHANGED << i, thermal >>
    /\ UNCHANGED << inputVars, dataVars, mgrVars, boards_initialized, sigVars, hw, ticksOut,
                    childVars, result >>

\* get_thermal_data, one iteration of the loop of lines 93-126
get_thermal_data_step ==
    /\ pc = "f_acquire"
    /\ i <= Len(sources)
    /\ \E t, a, c \in ReadOutcomes :
         /\ thermal' = Append(thermal, SourceData(sources[i], t, a, c))
         /\ hw' = Called(hw, AcquisitionCalls(i, Len(out) + 1, t, a, c))
    /\ i' = i + 1
    /\ UNCHANGED << inputVars, dataVars, pc, mgrVars, boards_initialized, sigVars, ticksOut,
                    childVars, line, out, result >>

\* bridge_run, lines 258-266: inject, print, flush, delete both trees
bridge_emit ==
    /\ pc = "f_acquire"
    /\ i > Len(sources)
    /\ out' = Append(out, cJSON_PrintUnformatted(inject_json(cJSON_Parse(line), thermal)))
    /\ pc' = "f_check"
    /\ i' = 1
    /\ thermal' = << >>
    /\ UNCHANGED << inputVars, dataVars, mgrVars, boards_initialized, sigVars, hw, ticksOut,
                    childVars, line, result >>

\* bridge_run, line 274: fclose(fp)
bridge_fclose ==
    /\ pc = "f_fclose"
    /\ rdOpen' = FALSE
    /\ pc' = "f_wait"
    /\ UNCHANGED << inputVars, dataVars, i, mgrVars, boards_initialized, sigVars, hw, ticksOut,
                    child, childCode, written, pipe, lineVars, result >>

\* bridge_run, lines 280-284: the result from the status waitpid stored
ExitStatus(ch, code) == IF ch = "exited" THEN code ELSE 1

\* bridge_run, lines 277-284: waitpid returns for a terminated child
bridge_waitpid ==
    /\ pc = "f_wait"
    /\ child \in {"exited", "signaled"}
    /\ result' = ExitStatus(child, childCode)
    /\ pc' = "f_free"
    /\ UNCHANGED << inputVars, dataVars, i, mgrVars, boards_initialized, sigVars, hw, ticksOut,
                    childVars, lineVars >>

\* a handled signal while waitpid is blocked: it returns -1 (EINTR) and leaves
\* status unset; WIFEXITED/WEXITSTATUS then read an uninitialized int
signal_interrupts_waitpid ==
    /\ pc = "f_wait"
    /\ child = "running"
    /\ sigCount < MaxSignals
    /\ handlers
    /\ sigCount' = sigCount + 1
    /\ g_running' = shutdown_handler(g_running)
    /\ sigInfo' = SigSeen
    /\ \E garbage \in 0 .. MaxExit : result' = garbage
    /\ pc' = "f_free"
    /\ UNCHANGED << inputVars, dataVars, i, mgrVars, boards_initialized, handlers, hw, ticksOut,
                    childVars, lineVars >>

\* the boards bridge_free closes
BridgeCloses(initialized, op) == IF initialized THEN op ELSE {}

\* cmd_fuse, lines 424-435: bridge_free(bridge); return exit_code
bridge_free ==
    /\ pc = "f_free"
    /\ board_manager_close(BridgeCloses(boards_initialized, opened))
    /\ pc' = "done"
    /\ UNCHANGED << inputVars, dataVars, i, mgrInit, boards_initialized, sigVars, ticksOut,
                    childVars, lineVars, result >>

(* ---- fuse: the child process ---------------------------------------------- *)
\* the child writes its next line; with the read end gone it gets SIGPIPE
child_write ==
    /\ child = "running"
    /\ written < Len(script)
    /\ IF rdOpen /\ pc \notin Ended
       THEN /\ pipe' = pipe \o script[written + 1] \o << NL >>
            /\ written' = written + 1
            /\ child' = child
       ELSE /\ child' = "signaled"
            /\ UNCHANGED << pipe, written >>
    /\ UNCHANGED << inputVars, dataVars, pc, i, mgrVars, boards_initialized, sigVars, hw, ticksOut,
                    childCode, rdOpen, lineVars, result >>

\* the child exits (a failed execvp is exit(1) with nothing written)
child_exit ==
    /\ child = "running"
    /\ written = Len(script)
    /\ \E code \in 0 .. MaxExit : childCode' = code
    /\ child' = "exited"
    /\ UNCHANGED << inputVars, dataVars, pc, i, mgrVars, boards_initialized, sigVars, hw, ticksOut,
                    written, pipe, rdOpen, lineVars, result >>

\* the child is terminated by a signal of its own
child_killed ==
    /\ child = "running"
    /\ child' = "signaled"
    /\ UNCHANGED << inputVars, dataVars, pc, i, mgrVars, boards_initialized, sigVars, hw, ticksOut,
                    childCode, written, pipe, rdOpen, lineVars, result >>

Fuse ==
    \/ bridge_create
    \/ bridge_init_boards_done
    \/ bridge_pipe
    \/ bridge_fork
    \/ bridge_fdopen
    \/ bridge_install
    \/ bridge_check
    \/ bridge_fgets
    \/ bridge_line
    \/ get_thermal_data_step
    \/ bridge_emit
    \/ bridge_fclose
    \/ bridge_waitpid
    \/ bridge_free
    \/ child_write
    \/ child_exit

(* ---- specifications ------------------------------------------------------- *)
\* source families
AddrSources ==
    { ThermalSource(AutoKey(a, 0), a, 0, DEFAULT_CALIBRATION_SLOPE,
                    DEFAULT_CALIBRATION_OFFSET, DEFAULT_UPDATE_INTERVAL) : a \in SrcAddr }
Intervals == {0, DEFAULT_UPDATE_INTERVAL, DEFAULT_UPDATE_INTERVAL + 1}
IntervalSources ==
    { ThermalSource(AutoKey(a, 0), a, 0, DEFAULT_CALIBRATION_SLOPE,
                    DEFAULT_CALIBRATION_OFFSET, u) : a \in SrcAddr, u \in Intervals }
CalSources ==
    { ThermalSource(AutoKey(MaxAddr, c), MaxAddr, c, s, o, DEFAULT_UPDATE_INTERVAL) :
        c \in SrcChan, s \in Slopes, o \in Offsets }
KeyedSources ==
    << ThermalSource("T1", 0, 0, DEFAULT_CALIBRATION_SLOPE, DEFAULT_CALIBRATION_OFFSET,
                     DEFAULT_UPDATE_INTERVAL),
       ThermalSource("T2", 0, 1, DEFAULT_CALIBRATION_SLOPE, DEFAULT_CALIBRATION_OFFSET,
                     DEFAULT_UPDATE_INTERVAL) >>

\* single-shot get over source lists with interval or calibration overrides
InitGet ==
    InitWith({"single"},
             NonEmptySeqsUpTo(IntervalSources, MaxSources)
                 \cup NonEmptySeqsUpTo(CalSources, MaxSources - 1),
             {{"temp"}}, {<< >>}, {{}}, {TRUE})
NextGet == BoardManager \/ GetSingle
SpecGet == InitGet /\ [][NextGet]_vars

\* single-shot get on boards whose configuration writes can fail
InitConfigure ==
    InitWith({"single"}, NonEmptySeqsUpTo(CalSources, MaxSources - 1), {{"temp"}},
             {<< >>}, {{"write"}}, {TRUE})
SpecConfigure == InitConfigure /\ [][NextGet]_vars

\* a command about to call board_manager_init on sources whose address is
\* that of a board or the first number past the boards
InitRange ==
    /\ InputsWith({"single", "stream", "fuse"},
                  NonEmptySeqsUpTo({ ThermalSource("T", a, 0, DEFAULT_CALIBRATION_SLOPE,
                                                   DEFAULT_CALIBRATION_OFFSET, u) :
                                       a \in {0, MAX_BOARDS},
                                       u \in {DEFAULT_UPDATE_INTERVAL,
                                              DEFAULT_UPDATE_INTERVAL + 1} },
                                   MaxSources - 1),
                  {{"temp"}}, {<< >>}, {{"write"}}, {TRUE})
    /\ config = NoConfig
    /\ FreshState
    /\ pc = "bm_begin"
SpecRange == InitRange /\ [][BoardManager]_vars

\* single-shot get on boards whose field reads can fail: sources sharing a
\* board, alone or followed by a source of any board
CollectLists ==
    { SubSeq(KeyedSources, 1, n) : n \in 1 .. Len(KeyedSources) }
        \cup { KeyedSources \o << s >> : s \in AddrSources }
CollectFields ==
    { {"temp"}, {"temp", "adc", "cjc"}, {"serial", "interval", "temp"},
      {"cal_date", "cal_coeffs", "cjc"}, StaticFields }
InitCollect ==
    InitWith({"single"}, CollectLists, CollectFields, {<< >>}, {{"read"}}, BOOLEAN)
SpecCollect == InitCollect /\ [][NextGet]_vars

\* the same on boards that hold any values, or the values the program has
\* as compiled-in defaults
InitValues ==
    InitWith({"single"}, CollectLists, CollectFields, {<< >>},
             {{"read"}, {"read", "defaults"}}, BOOLEAN)
SpecValues == InitValues /\ [][NextGet]_vars

\* streaming get with shutdown signals
InitStream ==
    InitWith({"stream"}, NonEmptySeqsUpTo(AddrSources, MaxSources),
             {{"temp"}, {"serial", "temp"}}, {<< >>}, {{}}, {TRUE})
NextStream == BoardManager \/ GetStream \/ signal_default \/ signal_handled
SpecStream == InitStream /\ [][NextStream]_vars

\* streaming get on boards whose field reads can fail: dynamic fields only,
\* or a static header, as JSON or as a table, before the ticks
TickLists == { SubSeq(KeyedSources, 1, n) : n \in 1 .. Len(KeyedSources) }
InitTicks ==
    \/ InitWith({"stream"}, TickLists, {{"temp", "cjc"}}, {<< >>}, {{"read"}}, {TRUE})
    \/ InitWith({"stream"}, TickLists, {{"serial", "interval", "temp"}}, {<< >>},
                {{"read"}}, BOOLEAN)
SpecTicks == InitTicks /\ [][NextStream]_vars
\* streaming get of one or two sources, as JSON or as a table, where the
\* process is scheduled: a step of stream_channels that can be taken is
\* taken; nothing obliges a signal to arrive
FairStream ==
    /\ InitWith({"stream"}, TickLists, {{"temp"}, {"serial", "temp"}}, {<< >>}, {{}}, BOOLEAN)
    /\ [][NextStream]_vars
    /\ WF_vars(BoardManager \/ GetStream)

\* fuse with shutdown signals and a child writing short lines
RunLines == { << >>, << "x" >>, << "{", "m", "}" >> }
InitFuse ==
    InitWith({"fuse"}, NonEmptySeqsUpTo(AddrSources, MaxSources - 1), {{}},
             SeqsUpTo(RunLines, MaxLines), {{}}, {TRUE})
NextFuse ==
    \/ BoardManager
    \/ Fuse
    \/ child_killed
    \/ signal_default
    \/ signal_handled
    \/ signal_interrupts_fgets
    \/ signal_interrupts_waitpid
SpecFuse == InitFuse /\ [][NextFuse]_vars
\* the bridge is scheduled: a step of cmd_fuse that can be taken is taken (a
\* blocked fgets or waitpid cannot); nothing obliges the child to write or to
\* exit, or a signal to arrive
FairFuse ==
    /\ SpecFuse
    /\ WF_vars(\/ BoardManager
               \/ bridge_create \/ bridge_init_boards_done \/ bridge_pipe \/ bridge_fork
               \/ bridge_fdopen \/ bridge_install \/ bridge_check \/ bridge_fgets
               \/ bridge_line \/ get_thermal_data_step \/ bridge_emit \/ bridge_fclose
               \/ bridge_waitpid \/ bridge_free)

\* the hardware after init and configure of srcs succeeded
RECURSIVE ReadyHw(_, _, _)
ReadyHw(h, op, srcs) ==
    IF srcs = << >> THEN h
    ELSE LET src == Head(srcs) IN
         ReadyHw(Configured(IF MustOpen(op, src) THEN OpenedBoard(h, src, 0, TRUE) ELSE h,
                            src, 0, TRUE, TRUE),
                 op \cup {src.address}, Tail(srcs))

\* the bridge filtering one child line of any content: the state of fuse when
\* the read loop is entered, the child having written its line and exited
InitLineWith(lines) ==
    /\ InputsWith({"fuse"}, {SubSeq(KeyedSources, 1, 1), KeyedSources}, {{}},
                  { << l >> : l \in lines }, {{"read"}}, {TRUE})
    /\ config = NoConfig
    /\ readings = << >>
    /\ board_infos = [a \in AllAddr |-> BoardInfoZero]
    /\ staticOut = << >>
    /\ pc = "f_check"
    /\ i = 1
    /\ mgrInit = TRUE
    /\ opened = Addresses(sources)
    /\ boards_initialized = TRUE
    /\ g_running = TRUE
    /\ handlers = TRUE
    /\ sigCount = 0
    /\ hw = ReadyHw(HwInit, {}, sources)
    /\ ticksOut = 0
    /\ sigInfo = NoSig
    /\ child = "exited"
    /\ childCode = 0
    /\ written = 1
    /\ pipe = script[1] \o << NL >>
    /\ rdOpen = TRUE
    /\ line = << >>
    /\ thermal = << >>
    /\ out = << >>
    /\ result = -1
NextLine ==
    \/ bridge_check
    \/ bridge_fgets
    \/ bridge_line
    \/ get_thermal_data_step
    \/ bridge_emit
    \/ bridge_fclose
    \/ bridge_waitpid
    \/ bridge_free
InitLine == InitLineWith(AllLines)
SpecLine == InitLine /\ [][NextLine]_vars

\* the bridge filtering one child line of each kind: an object, an array, a
\* number, a string, text that is not JSON, or nothing
KindLines ==
    { << "{", "m", "}" >>, << "{", "}" >>, << "[", "v", "]" >>, << "[", "]" >>,
      << "v" >>, << "m" >>, << "x" >>, << "[", "v" >>, << >> }
InitKinds == InitLineWith(KindLines)
SpecKinds == InitKinds /\ [][NextLine]_vars

\* every command on boards whose configuration writes can fail: sources sharing
\* a board, with or without a source of another board that overrides the
\* calibration and the update interval
Recalibrated ==
    ThermalSource("T3", MaxAddr, 0, DEFAULT_CALIBRATION_SLOPE + 1,
                  DEFAULT_CALIBRATION_OFFSET, DEFAULT_UPDATE_INTERVAL + 1)
PhaseLists ==
    TickLists \cup { << Recalibrated >> \o l : l \in TickLists }
              \cup { KeyedSources \o << Recalibrated >> }
PhaseScripts == { << >>, << << "{", "m", "}" >> >>, << << "x" >>, << "{", "m", "}" >> >> }
InitPhases ==
    \/ InitWith({"single", "stream"}, PhaseLists, {{"serial", "temp"}}, {<< >>},
                {{"write"}}, {TRUE})
    \/ InitWith({"fuse"}, PhaseLists, {{}}, PhaseScripts, {{"write"}}, {TRUE})
NextPhases ==
    \/ BoardManager
    \/ GetSingle
    \/ GetStream
    \/ Fuse
    \/ child_killed
    \/ signal_default
    \/ signal_handled
    \/ signal_interrupts_fgets
    \/ signal_interrupts_waitpid
SpecPhases == InitPhases /\ [][NextPhases]_vars

(* ---- the Source Registry: command line and config file ------------------- *)
\* (uint8_t)n
U8(n) == n % 256

\* one record of the "sources" array of a config file: the fields it gives
\* and their values (0 or "" for a field not given)
ConfigRecord(given, k, a, c, t, s, o, u) ==
    [given |-> given, key |-> k, address |-> a, channel |-> c, tc_type |-> t,
     cal_slope |-> s, cal_offset |-> o, update_interval |-> u]

\* (mutant) an omitted field is loaded as 0
OrDefault_Zero(rec, f, d) == IF f \in rec.given THEN rec[f] ELSE 0

\* the value of an optional field: the record's, or the default
OrDefault(rec, f, d) == IF f \in rec.given THEN rec[f] ELSE d

\* load_json_config, lines 137-173: the ThermalSource of one record that
\* has address and channel; the default key is printed from the numbers as
\* parsed, address and channel are stored as uint8_t
json_source(rec) ==
    WithType(ThermalSource(IF "key" \in rec.given THEN rec.key
                           ELSE AutoKey(rec.address, rec.channel),
                           U8(rec.address), U8(rec.channel),
                           OrDefault(rec, "cal_slope", DEFAULT_CALIBRATION_SLOPE),
                           OrDefault(rec, "cal_offset", DEFAULT_CALIBRATION_OFFSET),
                           OrDefault(rec, "update_interval", DEFAULT_UPDATE_INTERVAL)),
             IF "tc_type" \in rec.given THEN rec.tc_type ELSE "K")

\* load_yaml_config, lines 262-299: the ThermalSource of one mapping;
\* current_source starts zeroed with the default calibration and interval,
\* an empty key or type is replaced as an omitted one
yaml_source(rec) ==
    LET a == U8(IF "address" \in rec.given THEN rec.address ELSE 0)
        c == U8(IF "channel" \in rec.given THEN rec.channel ELSE 0)
        k == IF "key" \in rec.given THEN rec.key ELSE ""
        t == IF "tc_type" \in rec.given THEN rec.tc_type ELSE ""
    IN  WithType(ThermalSource(IF k = "" THEN AutoKey(a, c) ELSE k, a, c,
                               OrDefault(rec, "cal_slope", DEFAULT_CALIBRATION_SLOPE),
                               OrDefault(rec, "cal_offset", DEFAULT_CALIBRATION_OFFSET),
                               OrDefault(rec, "update_interval", DEFAULT_UPDATE_INTERVAL)),
                 IF t = "" THEN "K" ELSE t)

\* everything but the source list and the position is left alone
ConfigFrame ==
    UNCHANGED << mode, fields, script, faults, json_output, config, dataVars, mgrVars,
                 boards_initialized, sigVars, hw, ticksOut, childVars, lineVars >>

\* cmd_get, lines 490-533: the single source of --address / --channel,
\* each defaulting to 0
cmd_get_args ==
    /\ pc = "c_args"
    /\ config.command = "get"
    /\ LET a == IF config.address < 0 THEN 0 ELSE config.address
           c == IF config.channel < 0 THEN 0 ELSE config.channel
       IN  sources' = << WithType(ThermalSource(AutoKey(a, c), U8(a), U8(c),
                                                DEFAULT_CALIBRATION_SLOPE,
                                                DEFAULT_CALIBRATION_OFFSET,
                                                DEFAULT_UPDATE_INTERVAL),
                                  config.tc_type) >>
    /\ pc' = "c_ready"
    /\ UNCHANGED << i, result >>
    /\ ConfigFrame

\* cmd_fuse, lines 362-385: the single source of --address, --channel and
\* --key; both numbers have to be given
cmd_fuse_args ==
    /\ pc = "c_args"
    /\ config.command = "fuse"
    /\ IF config.address >= 0 /\ config.channel >= 0
       THEN /\ sources' = << WithType(ThermalSource(config.key, U8(config.address),
                                                    U8(config.channel),
                                                    DEFAULT_CALIBRATION_SLOPE,
                                                    DEFAULT_CALIBRATION_OFFSET,
                                                    DEFAULT_UPDATE_INTERVAL),
                                      config.tc_type) >>
            /\ pc' = "c_ready"
            /\ result' = result
       ELSE /\ pc' = "done"
            /\ result' = 1
            /\ sources' = sources
    /\ i' = i
    /\ ConfigFrame

\* load_json_config, lines 121-176: one element of the sources array; a
\* record without address or channel is skipped with a warning
load_json_config ==
    /\ pc = "c_load"
    /\ config.format = "json"
    /\ i <= Len(config.records)
    /\ LET rec == config.records[i]
       IN  sources' = IF "address" \notin rec.given \/ "channel" \notin rec.given
                      THEN sources
                      ELSE Append(sources, json_source(rec))
    /\ i' = i + 1
    /\ UNCHANGED << pc, result >>
    /\ ConfigFrame

\* load_yaml_config, lines 262-299: one mapping of the sources sequence
load_yaml_config ==
    /\ pc = "c_load"
    /\ config.format = "yaml"
    /\ i <= Len(config.records)
    /\ sources' = Append(sources, yaml_source(config.records[i]))
    /\ i' = i + 1
    /\ UNCHANGED << pc, result >>
    /\ ConfigFrame

\* load_json_config, lines 102-115, and load_yaml_config, lines 221-226: the
\* file does not parse (or, for JSON, has no "sources" array); config_load
\* returns THERMO_ERROR and the command returns 1
config_load_failed ==
    /\ pc = "c_load"
    /\ config.format = "invalid"
    /\ pc' = "done"
    /\ result' = 1
    /\ UNCHANGED << sources, i >>
    /\ ConfigFrame

\* cmd_get, lines 507-519, and cmd_fuse, lines 362-369: config_load has
\* returned THERMO_SUCCESS; get refuses an empty source list
config_loaded ==
    /\ pc = "c_load"
    /\ config.format \in {"json", "yaml"}
    /\ i > Len(config.records)
    /\ IF config.command = "get" /\ Len(sources) = 0
       THEN pc' = "done" /\ result' = 1
       ELSE pc' = "c_ready" /\ result' = result
    /\ i' = 1
    /\ sources' = sources
    /\ ConfigFrame

\* numbers a command line or a config file may give for address and channel
ConfigAddresses == {0, MAX_BOARDS - 1, MAX_BOARDS, 256}
ConfigChannels == {MCC134_NUM_CHANNELS - 1, MCC134_NUM_CHANNELS}
ConfigKeys == {"", "T1"}

\* records that give at most address and channel
PositionRecords ==
    { ConfigRecord(g, "", IF "address" \in g THEN a ELSE 0,
                   IF "channel" \in g THEN c ELSE 0, "", 0, 0, 0) :
        g \in SUBSET {"address", "channel"}, a \in ConfigAddresses, c \in ConfigChannels }
\* records of channel 0 of board 0 that give some of the optional fields
DetailRecords ==
    { ConfigRecord({"address", "channel"} \cup g,
                   IF "key" \in g THEN k ELSE "", 0, 0,
                   IF "tc_type" \in g THEN "J" ELSE "",
                   IF "cal_slope" \in g THEN DEFAULT_CALIBRATION_SLOPE + 1 ELSE 0,
                   IF "cal_offset" \in g THEN DEFAULT_CALIBRATION_OFFSET + 1 ELSE 0,
                   IF "update_interval" \in g THEN u ELSE 0) :
        g \in {{"key"}, {"tc_type"}, {"cal_slope", "cal_offset"}, {"update_interval"},
                {"key", "tc_type", "cal_slope", "cal_offset", "update_interval"}},
        k \in ConfigKeys, u \in {0, DEFAULT_UPDATE_INTERVAL + 1} }

\* the command lines and config files of get and fuse
ConfigInputs ==
    { [command |-> cmd, format |-> "args", records |-> << >>,
       address |-> a, channel |-> c, key |-> k, tc_type |-> "K"] :
        cmd \in {"get", "fuse"}, a \in ConfigAddresses \cup {-1},
        c \in ConfigChannels \cup {-1}, k \in ConfigKeys \cup {"TEMP_FUSED"} }
    \cup
    { [command |-> cmd, format |-> f, records |-> recs,
       address |-> -1, channel |-> -1, key |-> "TEMP_FUSED", tc_type |-> "K"] :
        cmd \in {"get", "fuse"}, f \in {"json", "yaml"},
        recs \in NonEmptySeqsUpTo(PositionRecords \cup DetailRecords, MaxSources - 1) }
    \cup
    { [command |-> cmd, format |-> "invalid", records |-> << >>,
       address |-> -1, channel |-> -1, key |-> "TEMP_FUSED", tc_type |-> "K"] :
        cmd \in {"get", "fuse"} }

\* get or fuse about to build its source list
InitConfig ==
    /\ config \in ConfigInputs
    /\ mode = IF config.command = "fuse" THEN "fuse" ELSE "single"
    /\ sources = << >>
    /\ fields = {"temp"}
    /\ script = << >>
    /\ faults = {}
    /\ json_output = TRUE
    /\ FreshState
    /\ pc = IF config.format = "args" THEN "c_args" ELSE "c_load"
NextConfig ==
    \/ cmd_get_args
    \/ cmd_fuse_args
    \/ load_json_config
    \/ load_yaml_config
    \/ config_load_failed
    \/ config_loaded
SpecConfig == InitConfig /\ [][NextConfig]_vars

(* ======================= claims: Board Manager ============================ *)
\* an open call of this run failed
OpenFailed == \E a \in AllAddr : hw.openCalls[a] > 0 /\ a \notin hw.everOpen
\* board_manager_init has returned THERMO_SUCCESS (single-shot get)
InitSucceeded == mode = "single" /\ pc \in {"bm_conf", "g_static", "g_dynamic", "g_output"}
\* board_manager_init has returned THERMO_ERROR (single-shot get)
InitFailed == mode = "single" /\ pc = "g_close" /\ mgrInit /\ result = 1
\* board_manager_configure has returned (single-shot get)
ConfigureDone == mode = "single" /\ pc \in {"g_static", "g_dynamic", "g_output"}

\* C1: when the command returns, every board whose open succeeded has been
\* passed to the hardware close exactly once, and no other board was closed
C1_ClosedExactlyOnce ==
    pc = "done" =>
        \A a \in AllAddr : hw.closeCalls[a] = IF a \in hw.everOpen THEN 1 ELSE 0

\* C2: board_manager_init is all-or-nothing: once an open has failed, init has
\* returned an error, every board it had opened was closed (once), openCount()
\* is 0 and isOpen(a) is false for every address
C2_InitAllOrNothing ==
    OpenFailed =>
        /\ InitFailed \/ (pc = "done" /\ result = 1)
        /\ board_manager_open_count = 0
        /\ \A a \in AllAddr : ~board_manager_is_open(a)
        /\ hw.isOpen = {}
        /\ \A a \in hw.everOpen : hw.closeCalls[a] = 1
C2_Witness ==
    InitFailed /\ OpenFailed /\ Cardinality(hw.everOpen) >= 1

\* C3 as stated: whenever board_manager_init has returned, it has issued
\* exactly one open per distinct address of the source list
C3_OneOpenPerAddressAlways ==
    (InitSucceeded \/ InitFailed) =>
        \A a \in AllAddr : hw.openCalls[a] = IF a \in Addresses(sources) THEN 1 ELSE 0

\* C3 (amended): no address is opened twice and no unreferenced address is
\* opened; when init succeeds it has issued exactly one open per distinct
\* address and the manager reports exactly the distinct addresses as open
C3_OneOpenPerAddress ==
    /\ \A a \in AllAddr :
         hw.openCalls[a] <= 1 /\ (a \notin Addresses(sources) => hw.openCalls[a] = 0)
    /\ InitSucceeded =>
         /\ \A a \in AllAddr :
              hw.openCalls[a] = IF a \in Addresses(sources) THEN 1 ELSE 0
         /\ \A a \in AllAddr : board_manager_is_open(a) <=> a \in Addresses(sources)
         /\ board_manager_open_count = Cardinality(Addresses(sources))
\* three sources on addresses 0, 0 and 1, two opens
C3_Witness ==
    /\ InitSucceeded
    /\ Len(sources) = 3
    /\ sources[1].address = 0 /\ sources[2].address = 0 /\ sources[3].address = 1
    /\ hw.openCalls[0] = 1 /\ hw.openCalls[1] = 1

\* sources naming (a, c) with a calibration pair other than the default pair
DifferingSources(a, c) ==
    { k \in 1 .. Len(sources) :
        /\ sources[k].address = a
        /\ sources[k].channel = c
        /\ << sources[k].slope, sources[k].offset >> #
               << DEFAULT_CALIBRATION_SLOPE, DEFAULT_CALIBRATION_OFFSET >> }

\* C10 as stated: configure issues exactly one calibration write per
\* (address, channel) whose pair differs from the default, none otherwise
C10_OneWritePerChannel ==
    ConfigureDone =>
        \A a \in AllAddr, c \in AllChan :
            hw.calWrites[a][c] = IF DifferingSources(a, c) # {} THEN 1 ELSE 0

\* C10 (amended): configure issues exactly one calibration write per source
\* whose pair differs from the default pair and none for a source with the
\* default pair: an (address, channel) gets as many writes as sources name it
\* with a differing pair
C10_OneWritePerSource ==
    ConfigureDone =>
        \A a \in AllAddr, c \in AllChan :
            hw.calWrites[a][c] = Cardinality(DifferingSources(a, c))
\* a default-pair source and a differing one on the same channel: one write
C10_Witness ==
    /\ ConfigureDone
    /\ \E k, n \in 1 .. Len(sources) :
         /\ sources[k].address = sources[n].address
         /\ sources[k].channel = sources[n].channel
         /\ sources[k].slope = DEFAULT_CALIBRATION_SLOPE
         /\ sources[k].offset = DEFAULT_CALIBRATION_OFFSET
         /\ sources[n].slope # DEFAULT_CALIBRATION_SLOPE
         /\ hw.calWrites[sources[k].address][sources[k].channel] = 1

(* ======================= claims: cancellation ============================= *)
\* the first handled signal arrived while a tick was in progress
SignalInTick == sigInfo.pc \in {"s_alloc", "s_collect", "s_output"}
\* stream_channels has returned after a handled signal
StreamCancelled == mode = "stream" /\ sigInfo # NoSig /\ pc = "done"

\* C4: in streaming get and in fuse, when the process has ended after a
\* shutdown signal, every board that was opened has been closed
C4_SignalClosesBoards ==
    (mode \in {"stream", "fuse"} /\ sigCount > 0 /\ pc \in Ended) => hw.isOpen = {}

\* C5 as stated: when stream_channels has returned 0 after a signal that was
\* delivered after N ticks, exactly N ticks were printed, none in part, and
\* every board is closed
C5_ExactlyNOutputs ==
    (StreamCancelled /\ result = 0) =>
        /\ ticksOut = sigInfo.ticks
        /\ Len(out) = ticksOut * Len(sources)
        /\ hw.isOpen = {}

\* C5 (amended): a signal the handler receives after N completed ticks gives
\* N outputs when it arrives between ticks and N + 1 when it arrives during a
\* tick, which is then finished and printed whole; no tick is printed in
\* part, every board is closed, and stream_channels returns 0, or 1 with N
\* outputs when the allocation of the tick in progress fails
C5_TickInProgressCompletes ==
    StreamCancelled =>
        /\ Len(out) = ticksOut * Len(sources)
        /\ hw.isOpen = {}
        /\ opened = {}
        /\ IF SignalInTick
           THEN \/ result = 0 /\ ticksOut = sigInfo.ticks + 1
                \/ result = 1 /\ ticksOut = sigInfo.ticks /\ sigInfo.pc = "s_alloc"
           ELSE result = 0 /\ ticksOut = sigInfo.ticks
\* a signal during the collection of the second tick: two outputs
C5_Witness ==
    /\ StreamCancelled
    /\ sigInfo.pc = "s_collect"
    /\ sigInfo.ticks = 1
    /\ ticksOut = 2
    /\ result = 0
    /\ hw.everOpen # {}

\* augmented lines printed after the flag was cleared
AugmentedAfterSignal ==
    { k \in (sigInfo.outLen + 1) .. Len(out) :
        out[k].kind = "json" /\ out[k].type = "object" }

\* C8: once the handler has cleared the flag, the bridge prints no augmented
\* line other than the one it had already read from the pipe at that moment
C8_NoLineAfterCancel ==
    (mode = "fuse" /\ sigInfo # NoSig) =>
        Cardinality(AugmentedAfterSignal) <=
            IF sigInfo.pc \in {"f_line", "f_acquire"} THEN 1 ELSE 0

\* C9: when bridge_run has returned after its read loop ended, the child has
\* terminated, every board is closed and the result is the child's exit status
\* if it exited normally and 1 otherwise
C9_WaitsForChild ==
    (mode = "fuse" /\ pc = "done" /\ child # "none" /\ ~rdOpen) =>
        /\ child \in {"exited", "signaled"}
        /\ hw.isOpen = {}
        /\ result = IF child = "exited" THEN childCode ELSE 1

(* ======================= claims: line filtering =========================== *)
\* the augmented form of an object line: the original members, TIMESTAMP,
\* and THERMOCOUPLE with one member per source, keyed by the source key, each
\* holding TEMP, ADC and CJC as a value or not-a-number
IsAugmentedFrom(o, l) ==
    /\ o.kind = "json"
    /\ o.type = "object"
    /\ Len(o.members) = (ObjectEnd(l) - 2) + 2
    /\ \A k \in 1 .. (ObjectEnd(l) - 2) : o.members[k] = Member("m", "orig", << >>)
    /\ o.members[ObjectEnd(l) - 1].name = "TIMESTAMP"
    /\ o.members[ObjectEnd(l) - 1].kind = "string"
    /\ o.members[ObjectEnd(l)].name = "THERMOCOUPLE"
    /\ o.members[ObjectEnd(l)].kind = "object"
    /\ LET r == o.members[ObjectEnd(l)].readings
       IN  /\ Len(r) = Len(sources)
           /\ \A k \in 1 .. Len(r) :
                /\ r[k].key = sources[k].key
                /\ {r[k].TEMP, r[k].ADC, r[k].CJC} \subseteq {"value", "NaN"}

\* C6: a child line that does not parse as JSON, whatever its length, is
\* printed as the identical bytes followed by exactly one newline
C6_PassThrough ==
    (pc = "done" /\ cJSON_Parse(script[1]).type = "invalid") =>
        out = << Raw(script[1]) >>

\* C7: a child line that parses as a JSON object is printed as an object with
\* the original members, TIMESTAMP and THERMOCOUPLE
C7_Augmented ==
    (pc = "done" /\ cJSON_Parse(script[1]).type = "object") =>
        \E k \in 1 .. Len(out) : IsAugmentedFrom(out[k], script[1])

(* ======================= claims: Board Manager, continued ================= *)
\* C12: when board_manager_init has succeeded, the interval of every source
\* that specifies a non-default update interval has been written to that
\* source's board, whatever the source's position among those sharing the board
C12_IntervalApplied ==
    InitSucceeded =>
        \A k \in 1 .. Len(sources) :
            (sources[k].update_interval > 0
                /\ sources[k].update_interval # DEFAULT_UPDATE_INTERVAL) =>
            \E n \in 1 .. Len(hw.ivWrites[sources[k].address]) :
                hw.ivWrites[sources[k].address][n] = sources[k].update_interval

\* C13: board_manager_close is idempotent: a call on an initialized manager
\* (inside a failing init, or from cmd_get) closes every flagged address
\* exactly once and no other, and leaves openCount() at 0; the call cmd_get
\* makes after a failed init, the second on that manager, closes nothing
C13_CloseIdempotent ==
    [][ ((pc = "g_close" /\ pc' = "done" /\ mgrInit)
            \/ (pc = "bm_init" /\ pc' = InitFailedPc)) =>
        /\ \A a \in AllAddr :
             hw'.closeCalls[a] = hw.closeCalls[a] + (IF a \in opened THEN 1 ELSE 0)
        /\ board_manager_open_count' = 0
        /\ (InitFailed => hw'.closeCalls = hw.closeCalls) ]_vars
\* cmd_get has called close on a manager that a failed init had already closed
C13_Witness ==
    /\ mode = "single"
    /\ pc = "done"
    /\ OpenFailed
    /\ hw.everOpen # {}
    /\ \A a \in hw.everOpen : hw.closeCalls[a] = 1

\* sources of the list that name channel c of board a
SourcesAt(a, c) ==
    { k \in 1 .. Len(sources) : sources[k].address = a /\ sources[k].channel = c }
\* sources of the list with a failed configuration write of the given kind
WarnedSources(what) ==
    { hw.warnings[n].source : n \in { m \in 1 .. Len(hw.warnings) : hw.warnings[m].what = what } }

\* C11: when board_manager_configure has returned, the thermocouple type has
\* been written once for every source, whether its calibration write was
\* skipped, succeeded or failed, every calibration write due has been issued
\* whatever failed before it, and no failed write made the command fail
C11_TypeAlwaysWritten ==
    /\ ConfigureDone =>
         \A a \in AllAddr, c \in AllChan :
            /\ hw.tcWrites[a][c] = Cardinality(SourcesAt(a, c))
            /\ hw.calWrites[a][c] = Cardinality(DifferingSources(a, c))
    /\ (mode = "single" /\ WarnedSources("cal") \cup WarnedSources("tc") # {}) =>
         result # 1
\* both writes of the first source failed, the second source got both of its own
C11_Witness ==
    /\ ConfigureDone
    /\ Len(sources) = 2
    /\ sources[1].channel # sources[2].channel
    /\ 1 \in WarnedSources("cal") /\ 1 \in WarnedSources("tc")
    /\ 2 \notin WarnedSources("cal") /\ 2 \notin WarnedSources("tc")
    /\ hw.calWrites[sources[2].address][sources[2].channel] = 1
    /\ hw.tcWrites[sources[2].address][sources[2].channel] = 1

(* ======================= claims: single-shot collection =================== *)
DynamicFieldNames == {"temp", "adc", "cjc"}

\* has_X of a ChannelReading, by field name
Present(r, f) == CASE f = "temp" -> r.has_temp
                   [] f = "adc"  -> r.has_adc
                   [] f = "cjc"  -> r.has_cjc

\* field f was read for source k in tick t, and the read succeeded
ReadSucceeded(f, k, t) ==
    \E n \in 1 .. Len(hw.reads) : hw.reads[n] = ReadCall(f, k, t, TRUE)
\* field f was read for source k in tick t
WasRead(f, k, t) ==
    \E n \in 1 .. Len(hw.reads) :
       /\ hw.reads[n].op = f
       /\ hw.reads[n].source = k
       /\ hw.reads[n].tick = t

\* collect_channels has returned THERMO_SUCCESS
CollectReturned == mode = "single" /\ (pc = "g_output" \/ result = 0)

\* C16: a single-shot collection that returns success holds exactly one
\* ChannelReading per source, in source order, carrying the source's address
\* and channel; temperature, ADC and CJC are present exactly when the field
\* was requested and its hardware read succeeded
C16_OneReadingPerSource ==
    /\ mode = "single" => Len(readings) <= Len(sources)
    /\ CollectReturned =>
         /\ Len(readings) = Len(sources)
         /\ \A k \in 1 .. Len(sources) :
              /\ readings[k].address = sources[k].address
              /\ readings[k].channel = sources[k].channel
              /\ \A f \in DynamicFieldNames :
                   /\ Present(readings[k], f) <=> (f \in fields /\ ReadSucceeded(f, k, 0))
                   /\ WasRead(f, k, 0) <=> f \in fields

\* two sources, of which the first has its temperature but not its ADC
\* value and the second has no temperature
C16_Witness ==
    /\ CollectReturned
    /\ Len(sources) >= 2
    /\ fields = DynamicFieldNames
    /\ readings[1].has_temp /\ ~readings[1].has_adc
    /\ ~readings[2].has_temp /\ readings[2].has_cjc

\* the output member that carries static field f
MemberOf(f) == CASE f = "serial"     -> "SERIAL"
                 [] f = "cal_date"   -> "CALIBRATION.DATE"
                 [] f = "cal_coeffs" -> "CALIBRATION.SLOPE"
                 [] f = "interval"   -> "UPDATE_INTERVAL"

\* sources k and n share the BoardInfo slot of static field f
SameSlot(f, k, n) ==
    /\ sources[n].address = sources[k].address
    /\ f \in {"cal_date", "cal_coeffs"} => sources[n].channel = sources[k].channel

\* no read of static field f into the slot of source k succeeded
StaticReadFailed(f, k) ==
    /\ f \in fields
    /\ \A n \in 1 .. Len(sources) : SameSlot(f, k, n) => ~ReadSucceeded(f, n, 0)

\* the row printed for source k has a member for static field f
Emitted(f, k) == \E m \in Range(out[k].members) : m[1] = MemberOf(f)

\* C17: in single-shot get a requested static field (serial, calibration
\* date, calibration coefficients, update interval) whose read fails is
\* absent from the output of that source, and the failure aborts nothing:
\* every source still has its row
C17_FailedStaticAbsent ==
    (mode = "single" /\ result = 0) =>
        /\ Len(out) = Len(sources)
        /\ \A k \in 1 .. Len(sources), f \in StaticFields :
             StaticReadFailed(f, k) => ~Emitted(f, k)

\* every board of the source list has been opened
AllBoardsOpened == hw.everOpen = Addresses(sources)

\* C20: in single-shot get, when a board fails to open the command reports
\* an error, prints no reading, returns 1 and leaves no board open; when
\* all boards open it returns 0 and prints a row per source even when
\* individual field reads fail
C20_OpenFailureIsFatal ==
    /\ (mode = "single" /\ OpenFailed) => out = << >>
    /\ (mode = "single" /\ pc = "done" /\ OpenFailed) =>
         /\ result = 1
         /\ hw.isOpen = {}
         /\ WarnedSources("open") # {}
    /\ (mode = "single" /\ pc = "done" /\ AllBoardsOpened) =>
         /\ result = 0
         /\ Len(out) = Len(sources)

\* the command has ended after the open of a later board failed: a board
\* opened before it has been closed again
C20_Witness ==
    /\ mode = "single" /\ pc = "done"
    /\ OpenFailed
    /\ hw.everOpen # {}
    /\ hw.closeCalls[0] = 1

(* ======================= claims: streaming ================================ *)
StaticRequested == fields \cap StaticFields # {}

\* stream_channels is past its static section
PastStatic ==
    /\ mode = "stream"
    /\ pc \in {"s_install", "s_check", "s_alloc", "s_collect", "s_output", "s_sleep", "s_close"}

\* the calls made for field f of source k
CallsOf(f, k) ==
    { n \in 1 .. Len(hw.reads) : hw.reads[n].op = f /\ hw.reads[n].source = k }

\* source k is the first of the list on its board
FirstOfBoard(k) == \A n \in 1 .. k - 1 : sources[n].address # sources[k].address

\* static fields are read outside the ticks only, and once the static
\* section is over each requested one has been read once per source (the
\* serial number once per board at least, and again only after a failed read)
StaticCollectedOnce ==
    /\ \A n \in 1 .. Len(hw.reads) :
         hw.reads[n].op \in StaticFields =>
            hw.reads[n].tick = 0 /\ hw.reads[n].op \in fields
    /\ PastStatic =>
         \A k \in 1 .. Len(sources), f \in fields \cap StaticFields :
            /\ Cardinality(CallsOf(f, k)) <= 1
            /\ (f # "serial" \/ FirstOfBoard(k)) => Cardinality(CallsOf(f, k)) = 1

\* nothing is printed by a tick before the static section is over, and no
\* row of a tick carries a static field
TicksDynamicOnly ==
    /\ (mode = "stream" /\ out # << >>) => (PastStatic \/ pc = "done")
    /\ mode = "stream" =>
         \A n \in 1 .. Len(out) :
            /\ out[n].tick >= 1
            /\ \A m \in Range(out[n].members) :
                 m[1] \in {"KEY", "ADDRESS", "CHANNEL", "TEMPERATURE", "ADC", "CJC"}

\* every tick printed has read every requested dynamic field of every
\* source once
TicksReadAll ==
    mode = "stream" =>
        \A t \in 1 .. ticksOut, k \in 1 .. Len(sources), f \in fields \cap DynamicFieldNames :
            Cardinality({ n \in CallsOf(f, k) : hw.reads[n].tick = t }) = 1

ReadingOf(f) == CASE f = "temp" -> "TEMPERATURE"
                  [] f = "adc"  -> "ADC"
                  [] f = "cjc"  -> "CJC"

\* the rows are printed tick by tick, and in a tick source by source
RowsInOrder ==
    /\ Len(out) >= ticksOut * Len(sources)
    /\ \A n \in 1 .. Len(out) :
         /\ out[n].tick = ((n - 1) \div Len(sources)) + 1
         /\ out[n].source = ((n - 1) % Len(sources)) + 1
         /\ out[n].address = sources[out[n].source].address
         /\ out[n].channel = sources[out[n].source].channel

\* every row of a tick shows exactly the requested fields whose read, for
\* that source in that tick, succeeded
RowsMatchReads ==
    \A n \in 1 .. Len(out) : \A f \in DynamicFieldNames :
        (\E m \in Range(out[n].members) : m[1] = ReadingOf(f))
            <=> (f \in fields /\ ReadSucceeded(f, out[n].source, out[n].tick))

\* C15: streaming ticks are independent: a failed read leaves that field
\* absent for that source in that tick only, the other fields and sources of
\* the tick are still read and printed, and the loop goes on to its next
\* check of the running flag
C15_TicksIndependent ==
    /\ [](mode = "stream" =>
            /\ RowsInOrder
            /\ RowsMatchReads
            /\ \A n \in 1 .. Len(out) : \A f \in fields \cap DynamicFieldNames :
                   WasRead(f, out[n].source, out[n].tick))
    /\ [][ (pc \in {"s_collect", "s_output", "s_sleep"}) =>
            (pc' \in {"s_collect", "s_output", "s_sleep", "s_check"}) ]_vars

\* two ticks of two sources: in the first the temperature read of the
\* first source failed while its CJC read and the reads of the second
\* source succeeded; in the second tick the temperature is back
C15_Witness ==
    /\ mode = "stream" /\ fields = {"temp", "cjc"}
    /\ Len(sources) = 2 /\ Len(out) = 4 /\ ticksOut = 2
    /\ << "CJC", "read" >> \in Range(out[1].members)
    /\ << "TEMPERATURE", "read" >> \notin Range(out[1].members)
    /\ {<< "TEMPERATURE", "read" >>, << "CJC", "read" >>} \subseteq Range(out[2].members)
    /\ << "TEMPERATURE", "read" >> \in Range(out[3].members)

(* ======================= claims: the Source Registry ====================== *)
\* the invariant of a ThermalSource
ValidSource(src) ==
    /\ src.key # ""
    /\ src.address \in 0 .. (MAX_BOARDS - 1)
    /\ src.channel \in 0 .. (MCC134_NUM_CHANNELS - 1)

\* the source list is complete: the command goes on to open the boards
SourcesReady == pc = "c_ready"

\* C18: when get or fuse has built its source list, from the command line
\* or from a JSON or YAML config file, and is about to open the boards,
\* every source has a non-empty key, an address in 0..7 and a channel in 0..3
C18_SourcesValid ==
    SourcesReady => \A k \in 1 .. Len(sources) : ValidSource(sources[k])

\* the record gives address and channel and nothing else
PositionOnly(rec) == rec.given = {"address", "channel"}

\* a ThermalSource built by hand with the defaults
HandBuilt(a, c) ==
    [key |-> AutoKey(a, c), address |-> a, channel |-> c, tc_type |-> "K",
     slope |-> DEFAULT_CALIBRATION_SLOPE, offset |-> DEFAULT_CALIBRATION_OFFSET,
     update_interval |-> 1]

\* a config file all of whose records give only address and channel, each
\* a number a uint8_t holds
PositionOnlyFile ==
    /\ config.format \in {"json", "yaml"}
    /\ \A k \in 1 .. Len(config.records) :
         /\ PositionOnly(config.records[k])
         /\ config.records[k].address < 256
         /\ config.records[k].channel < 256

\* C19: a config record that gives only address and channel, loaded by the
\* JSON or the YAML loader, yields the ThermalSource built by hand with the
\* defaults: key TEMP_<address>_<channel>, type K, default slope and
\* offset, update interval 1
C19_DefaultsOnLoad ==
    (PositionOnlyFile /\ pc \in {"c_load", "c_ready"}) =>
        /\ Len(sources) = (IF pc = "c_ready" THEN Len(config.records) ELSE i - 1)
        /\ \A k \in 1 .. Len(sources) :
             sources[k] = HandBuilt(config.records[k].address, config.records[k].channel)

\* a YAML file of two records with only address and channel has been loaded
C19_Witness ==
    /\ PositionOnlyFile
    /\ config.format = "yaml"
    /\ pc = "c_ready"
    /\ Len(sources) = 2
    /\ sources[1].address = MAX_BOARDS - 1
    /\ sources[2].address = 0

(* ======================= claims: output and ordering ====================== *)
\* the members an object can have, in the order claimed
MemberOrder ==
    << "KEY", "ADDRESS", "CHANNEL", "SERIAL", "CALIBRATION.DATE", "CALIBRATION.SLOPE",
       "UPDATE_INTERVAL", "TEMPERATURE", "ADC", "CJC" >>
Rank(name) == CHOOSE n \in 1 .. Len(MemberOrder) : MemberOrder[n] = name

\* the member is that of a requested field
RequestedMember(name) ==
    \/ \E f \in fields \cap StaticFields : MemberOf(f) = name
    \/ \E f \in fields \cap DynamicFieldNames : ReadingOf(f) = name

\* C21: single-shot JSON output for one source is a flat object with the
\* members KEY, ADDRESS, CHANNEL, then requested static fields, then
\* requested dynamic fields, and nothing else; for more sources it is an
\* array of one such object per source, in source order
C21_JsonMemberOrder ==
    (mode = "single" /\ json_output /\ result = 0) =>
        /\ Len(out) = Len(sources)
        /\ \A k \in 1 .. Len(out) :
             LET ms == out[k].members
             IN  /\ out[k].doc = (IF Len(sources) = 1 THEN "object" ELSE "array")
                 /\ out[k].source = k
                 /\ Len(ms) >= 3
                 /\ ms[1] = << "KEY", sources[k].key >>
                 /\ ms[2] = << "ADDRESS", ToString(sources[k].address) >>
                 /\ ms[3] = << "CHANNEL", ToString(sources[k].channel) >>
                 /\ \A m, n \in 1 .. Len(ms) : m < n => Rank(ms[m][1]) < Rank(ms[n][1])
                 /\ \A n \in 4 .. Len(ms) : RequestedMember(ms[n][1])
                 /\ \A f \in fields \cap DynamicFieldNames :
                      ReadSucceeded(f, k, 0) => (\E m \in Range(ms) : m[1] = ReadingOf(f))
                 /\ \A f \in fields \cap StaticFields :
                      ReadSucceeded(f, k, 0) => Emitted(f, k)

\* source T1 (address 0, channel 0) with only the temperature requested
\* and read: the object is KEY, ADDRESS, CHANNEL, TEMPERATURE
C21_Witness ==
    /\ mode = "single" /\ json_output /\ result = 0
    /\ fields = {"temp"}
    /\ Len(out) = 1
    /\ out[1].doc = "object"
    /\ out[1].members = << << "KEY", "T1" >>, << "ADDRESS", "0" >>, << "CHANNEL", "0" >>,
                            << "TEMPERATURE", "read" >> >>

\* calls m and n of the read log are made for the same board and channel
SameChannel(m, n) ==
    /\ sources[hw.reads[m].source].address = sources[hw.reads[n].source].address
    /\ sources[hw.reads[m].source].channel = sources[hw.reads[n].source].channel

\* C22: in a single-shot collection pass the sources are visited in Source
\* Registry order, and the static fields of a (board, channel) are read
\* before any dynamic field of that (board, channel)
C22_StaticBeforeDynamic ==
    mode = "single" =>
        \A m, n \in 1 .. Len(hw.reads) :
            LET a == hw.reads[m]
                b == hw.reads[n]
            IN  /\ (m < n /\ (a.op \in StaticFields <=> b.op \in StaticFields)) =>
                       a.source <= b.source
                /\ (a.op \in StaticFields /\ b.op \in DynamicFieldNames
                       /\ SameChannel(m, n)) => m < n

\* two sources of one board, each with static and dynamic fields read
C22_Witness ==
    /\ mode = "single" /\ pc = "g_output"
    /\ Len(sources) >= 2
    /\ \A k \in 1 .. 2 : WasRead("interval", k, 0) /\ WasRead("temp", k, 0)

\* no calibration or thermocouple-type write has been issued
NoWrites == \A a \in AllAddr, c \in AllChan : hw.calWrites[a][c] = 0 /\ hw.tcWrites[a][c] = 0
\* the thermocouple-type write of source k has been issued
TypeWritten(h, k) ==
    h.tcWrites[sources[k].address][sources[k].channel] >=
        Cardinality({ j \in 1 .. k : /\ sources[j].address = sources[k].address
                                      /\ sources[j].channel = sources[k].channel })
\* this step calls thermo_open
OpenStep == hw'.openCalls # hw.openCalls
\* this step writes calibration coefficients or a thermocouple type
WriteStep == hw'.calWrites # hw.calWrites \/ hw'.tcWrites # hw.tcWrites
\* the opens so far went through the list in order: the board opened in this
\* step belongs to a source whose predecessors all had their board opened
OpenInOrder ==
    \E k \in 1 .. Len(sources) :
        /\ hw'.openCalls = [hw.openCalls EXCEPT ![sources[k].address] = @ + 1]
        /\ \A j \in 1 .. (k - 1) : hw.openCalls[sources[j].address] >= 1
\* the writes of this step are those of the first source not yet configured
WriteInOrder ==
    \E k \in 1 .. Len(sources) :
        /\ \A j \in 1 .. (k - 1) : TypeWritten(hw, j)
        /\ \A j \in k .. Len(sources) : ~TypeWritten(hw, j)
        /\ hw'.tcWrites = [hw.tcWrites EXCEPT ![sources[k].address][sources[k].channel] = @ + 1]
        /\ \A a \in AllAddr, c \in AllChan :
              hw'.calWrites[a][c] # hw.calWrites[a][c] =>
                  a = sources[k].address /\ c = sources[k].channel
\* the reads of one pass (the static pass, one tick, one line) follow the
\* list, and the passes follow each other
ReadsInOrder ==
    \A m, n \in 1 .. Len(hw.reads) :
        m < n =>
            /\ hw.reads[m].tick <= hw.reads[n].tick
            /\ (/\ hw.reads[m].tick = hw.reads[n].tick
                /\ (hw.reads[m].op \in StaticFields <=> hw.reads[n].op \in StaticFields)) =>
                   hw.reads[m].source <= hw.reads[n].source

\* C23: in every run mode every board open precedes the first calibration or
\* thermocouple-type write, every such write precedes the first field read,
\* no temperature or ADC read of a channel is issued before the type write of
\* that channel was attempted, and within each phase the calls follow the
\* order of the Source Registry
C23_ThreePhases ==
    /\ [][ /\ OpenStep => (NoWrites /\ hw.reads = << >> /\ OpenInOrder)
           /\ WriteStep => (hw.reads = << >> /\ WriteInOrder) ]_vars
    /\ [](/\ ReadsInOrder
          /\ \A n \in 1 .. Len(hw.reads) :
                hw.reads[n].op \in {"temp", "adc"} => TypeWritten(hw, hw.reads[n].source))

\* fuse, stream or single-shot get: three sources on two boards, one of them
\* recalibrated, all opened, configured and read
C23_Witness ==
    /\ sources = KeyedSources \o << Recalibrated >>
    /\ hw.openCalls[0] = 1 /\ hw.openCalls[MaxAddr] = 1
    /\ hw.calWrites[MaxAddr][0] = 1
    /\ \A k \in 1 .. 3 : TypeWritten(hw, k) /\ \E n \in 1 .. Len(hw.reads) :
                              hw.reads[n].source = k /\ hw.reads[n].op = "temp"
    /\ mode = "fuse"

(* ======================= claims: the fusion bridge ======================== *)
\* the state of the bridge: Idle until bridge_init_boards has returned,
\* BoardsReady until the child is forked, Piping until the read loop is left,
\* Draining until waitpid has returned, Closed from the return of bridge_run
BridgeState ==
    CASE pc \in {"f_create", "bm_begin", "bm_init", "bm_conf", "f_ready"} -> "Idle"
      [] pc \in {"f_pipe", "f_fork"} -> "BoardsReady"
      [] pc \in {"f_fdopen", "f_install", "f_check", "f_fgets", "f_line", "f_acquire"} -> "Piping"
      [] pc \in {"f_fclose", "f_wait"} -> "Draining"
      [] pc \in {"f_free", "done"} -> "Closed"
      [] OTHER -> "Killed"
\* this step of fuse changes the state of the bridge (a signal that kills
\* the process ends the run in whatever state it is)
BridgeMoves == mode = "fuse" /\ BridgeState' # BridgeState /\ BridgeState' # "Killed"
\* the bridge moves to the next state of the list, or from Idle to Closed
\* when board init has failed
InOrderMove ==
    \/ BridgeState = "Idle" /\ BridgeState' = "BoardsReady" /\ boards_initialized'
    \/ BridgeState = "Idle" /\ BridgeState' = "Closed" /\ ~boards_initialized'
    \/ BridgeState = "BoardsReady" /\ BridgeState' = "Piping" /\ child' = "running"
    \/ BridgeState = "Piping" /\ BridgeState' = "Draining"
    \/ BridgeState = "Draining" /\ BridgeState' = "Closed"
\* bridge_run returns 1 because pipe(), fork() or fdopen() failed
SpawnFailureMove ==
    /\ pc \in {"f_pipe", "f_fork", "f_fdopen"}
    /\ BridgeState' = "Closed"
    /\ result' = 1
    /\ out' = << >>
\* bridge_run has returned because board init failed
BridgeInitFailed == mode = "fuse" /\ BridgeState = "Closed" /\ ~boards_initialized
\* after a failed board init: failure status, no child, no line read, no
\* board left open
NothingStarted ==
    /\ result = 1
    /\ child = "none"
    /\ line = << >> /\ out = << >> /\ hw.reads = << >>
    /\ hw.isOpen = {}

InitFailedAtSecondBoard ==
    /\ BridgeInitFailed /\ pc = "done"
    /\ hw.openCalls[0] = 1 /\ hw.openCalls[MaxAddr] = 1

\* output line k carries a TIMESTAMP or a readings item
Injected(k) ==
    \E n \in 1 .. Len(out[k].members) : out[k].members[n].name \in {"TIMESTAMP", "THERMOCOUPLE"}

\* C25: the bridge augments a line if and only if the line parses as a JSON
\* object; a line that is valid JSON of another kind (array, number, string,
\* literal) receives no TIMESTAMP or readings
C25_OnlyObjectsAugmented ==
    pc = "done" =>
        /\ Len(out) = 1
        /\ Injected(1) <=> cJSON_Parse(script[1]).type = "object"

\* the read log is that of n acquisitions: each reads temperature, ADC and
\* CJC of every source once, in source order
IsAcquisitions(n) ==
    /\ Len(hw.reads) = n * 3 * Len(sources)
    /\ \A t \in 1 .. n, k \in 1 .. Len(sources) :
          LET base == ((t - 1) * Len(sources) + (k - 1)) * 3
          IN  /\ hw.reads[base + 1].op = "temp"
              /\ hw.reads[base + 2].op = "adc"
              /\ hw.reads[base + 3].op = "cjc"
              /\ \A d \in 1 .. 3 : hw.reads[base + d].source = k
\* the printed JSON values among the first n output lines
JsonOut(o, n) == { k \in 1 .. n : o[k].kind = "json" }
\* this step prints a JSON value
EmitStep == Len(out') = Len(out) + 1 /\ out'[Len(out')].kind = "json"
\* this step reads hardware
ReadStep == hw'.reads # hw.reads

\* C26: for each JSON line the bridge takes the timestamp before it reads
\* hardware, performs exactly one acquisition (temperature, ADC and CJC of
\* every source once, in source order) and emits the augmented line only after
\* it; for a line that is not JSON it reads no hardware
C26_OneAcquisitionPerLine ==
    /\ [](pc = "done" =>
            IF cJSON_Parse(script[1]).type # "invalid"
            THEN IsAcquisitions(1) /\ Cardinality(JsonOut(out, Len(out))) = 1
            ELSE hw.reads = << >>)
    /\ [][ /\ ReadStep => (pc = "f_acquire" /\ cJSON_Parse(line).type # "invalid")
           /\ EmitStep => (~ReadStep /\ IsAcquisitions(Cardinality(JsonOut(out', Len(out')))))
         ]_vars

\* the boards were initialised and pipe() or fork() failed
NoChild == mode = "fuse" /\ boards_initialized /\ BridgeState = "Closed" /\ child = "none"
\* the child was forked and could not exec its command: perror, exit(1),
\* nothing written to the pipe
ExecFailed ==
    /\ mode = "fuse" /\ boards_initialized
    /\ script = << >> /\ child = "exited" /\ childCode = 1

\* C27: if spawning the child fails (pipe or fork fails, or the child cannot
\* exec its command), fuse returns a non-zero status, emits no augmented
\* line, and every board the bridge opened is closed before cmd_fuse returns
C27_SpawnFailure ==
    (pc = "done" /\ (NoChild \/ ExecFailed)) =>
        /\ result # 0
        /\ JsonOut(out, Len(out)) = {}
        /\ hw.isOpen = {}

\* the same for a run that no signal reached
SpawnFailureUnsignalled == sigCount = 0 => C27_SpawnFailure
\* the three ways of a failed spawn, each ended
PipeOrForkFailed == pc = "done" /\ NoChild /\ hw.closeCalls[0] = 1
ExecFailedWaited == pc = "done" /\ ExecFailed /\ result = 1 /\ hw.closeCalls[0] = 1

(* ======================= claims: failures ================================= *)
\* an update-interval write of this run has failed
IntervalWriteFailed == WarnedSources("interval") # {}
\* this step is a failing update-interval write
IntervalFailStep ==
    /\ Len(hw'.warnings) = Len(hw.warnings) + 1
    /\ hw'.warnings[Len(hw'.warnings)].what = "interval"
\* this step is board_manager_init returning THERMO_ERROR
InitErrorStep == pc = "bm_init" /\ pc' \notin {"bm_init", InitReturnPc, "killed"}

\* C28: a failed update-interval write in board_manager_init is not fatal:
\* init does not fail because of it, the board stays open, and the remaining
\* boards are still opened
C28_IntervalFailureNotFatal ==
    /\ [][ /\ IntervalFailStep =>
                /\ pc' = "bm_init" /\ i' = i + 1
                /\ sources[i].address \in hw'.isOpen
                /\ sources[i].address \in opened'
           /\ (InitErrorStep /\ IntervalWriteFailed) => OpenFailed' ]_vars
    /\ []((pc = InitReturnPc /\ IntervalWriteFailed) =>
            /\ ~OpenFailed
            /\ \A k \in 1 .. Len(sources) :
                  sources[k].address \in hw.isOpen /\ sources[k].address \in opened)

\* the interval write of the first source failed, and init returned with its
\* board and the board of the sources after it open
C28_Witness ==
    /\ pc = InitReturnPc
    /\ 1 \in WarnedSources("interval")
    /\ Len(sources) >= 2 /\ sources[2].address # sources[1].address
    /\ hw.isOpen = {sources[1].address, sources[2].address}

\* record n of the config file lacks address or channel
MissingRequired(n) ==
    "address" \notin config.records[n].given \/ "channel" \notin config.records[n].given
\* the config file is malformed or has a record without a required field
BadConfig ==
    \/ config.format = "invalid"
    \/ /\ config.format \in {"json", "yaml"}
       /\ \E n \in 1 .. Len(config.records) : MissingRequired(n)

\* C29: a config file that is malformed or has a source record without
\* address or channel makes get and fuse fail with a non-zero status before
\* any board is opened: the command never goes on to open boards with the
\* sources it did load
C29_BadConfigIsFatal ==
    (BadConfig /\ pc \in {"c_ready", "done"}) =>
        /\ pc = "done"
        /\ result # 0
        /\ \A a \in AllAddr : hw.openCalls[a] = 0

\* get about to open boards with the one record of two that a JSON file
\* gave in full, and with the record a YAML file gave without an address
PartialListUsed ==
    /\ pc = "c_ready" /\ config.format = "json" /\ config.command = "get"
    /\ Len(config.records) = 2 /\ MissingRequired(1) /\ Len(sources) = 1
AddressAssumed ==
    /\ pc = "c_ready" /\ config.format = "yaml" /\ config.command = "get"
    /\ Len(config.records) = 1 /\ "address" \notin config.records[1].given
    /\ Len(sources) = 1 /\ sources[1].address = 0

\* calls m and n of the read log ask the same thing of the hardware in the
\* same pass: the same field of the same board (serial number, update
\* interval) or of the same channel of the same board (every other field)
SameCall(m, n) ==
    /\ hw.reads[m].op = hw.reads[n].op
    /\ hw.reads[m].tick = hw.reads[n].tick
    /\ sources[hw.reads[m].source].address = sources[hw.reads[n].source].address
    /\ hw.reads[m].op \notin {"serial", "interval"} =>
          sources[hw.reads[m].source].channel = sources[hw.reads[n].source].channel

\* C30: the core never retries a hardware call: within one collection pass
\* (or one fusion acquisition) a call that failed for a board, or a channel of
\* a board, and a field is not issued again for the same board or channel and
\* field
C30_NoRetry ==
    \A m, n \in 1 .. Len(hw.reads) :
        (m < n /\ ~hw.reads[m].ok) => ~SameCall(m, n)

\* the serial number asked of board 0 again for the second source after the
\* read made for the first source had failed
SerialReadAgain ==
    /\ pc = "g_output" /\ Len(sources) >= 2
    /\ \E m, n \in 1 .. Len(hw.reads) :
          /\ hw.reads[m].op = "serial" /\ hw.reads[m].source = 1 /\ ~hw.reads[m].ok
          /\ hw.reads[n].op = "serial" /\ hw.reads[n].source = 2

(* ======================= claims: presence of fields ======================= *)
\* C31: in single-shot get a requested field whose hardware read succeeded is
\* present in the emitted result for its source, in JSON output and in table
\* output alike, whatever value was read (a compiled-in default included)
C31_ReadFieldPresent ==
    (mode = "single" /\ result = 0) =>
        /\ Len(out) = Len(sources)
        /\ \A k \in 1 .. Len(sources) :
              /\ \A f \in fields \cap StaticFields :
                    ReadSucceeded(f, k, 0) => Emitted(f, k)
              /\ \A f \in fields \cap DynamicFieldNames :
                    ReadSucceeded(f, k, 0) =>
                        \E m \in Range(out[k].members) : m[1] = ReadingOf(f)

\* the same on boards whose values differ from the compiled-in defaults
ReadFieldPresentOtherValues == "defaults" \notin faults => C31_ReadFieldPresent

\* the data BoardInfo b holds that a board gave: the serial number, the
\* interval, and per channel the calibration date and coefficients
Gathered(b) ==
    { << f, 0 >> : f \in { g \in {"serial", "interval"} :
                              (IF g = "serial" THEN b.serial ELSE b.update_interval) = "read" } }
    \cup { << "cal_date", c >> : c \in { d \in AllChan : b.channels[d].cal_date = "read" } }
    \cup { << "cal_coeffs", c >> : c \in { d \in AllChan : b.channels[d].cal_coeffs = "read" } }

\* C32: within one run the BoardInfo of a board address is initialised once
\* and then only accumulated: what was gathered for an earlier source's
\* channel is still there after the later sources of the board were visited
C32_BoardInfoAccumulates ==
    /\ [][ \A a \in AllAddr :
             /\ Gathered(board_infos[a]) \subseteq Gathered(board_infos'[a])
             /\ (board_infos[a] # BoardInfoZero) => (board_infos'[a].address = a) ]_vars
    /\ []((mode = "single" /\ pc \in {"g_dynamic", "g_output"}) =>
            \A k \in 1 .. Len(sources), f \in fields \cap {"cal_date", "cal_coeffs"} :
                ReadSucceeded(f, k, 0) =>
                    << f, sources[k].channel >> \in Gathered(board_infos[sources[k].address]))

\* three sources, the first two on channels 0 and 1 of board 0: the date and
\* coefficients read for channel 0 are held next to those of channel 1
\* when the third source has been visited
C32_Witness ==
    /\ pc = "g_output" /\ Len(sources) = 3
    /\ {<< "cal_date", 0 >>, << "cal_coeffs", 0 >>, << "cal_date", 1 >>}
           \subseteq Gathered(board_infos[0])
    /\ ~ReadSucceeded("cal_coeffs", 2, 0)

(* ======================= claims: board sessions =========================== *)
\* board a is open: its open succeeded, it is flagged in the Board Manager
\* and it has not been closed
OpenIn(h, op, a) == a \in h.isOpen /\ a \in op
\* the calls this step adds to the read log
NewReads == { hw'.reads[n] : n \in (Len(hw.reads) + 1) .. Len(hw'.reads) }

\* C33: in get (single-shot and streaming) and fuse a configuration write or
\* a field read is issued to a board address only while that address is open
\* in the Board Manager: after its open succeeded and before its close
C33_CallsOnlyWhileOpen ==
    [][ /\ \A a \in HwAddr :
             /\ hw'.ivWrites[a] # hw.ivWrites[a] => OpenIn(hw', opened', a)
             /\ (hw'.calWrites[a] # hw.calWrites[a] \/ hw'.tcWrites[a] # hw.tcWrites[a]) =>
                    (OpenIn(hw, opened, a) /\ OpenIn(hw', opened', a))
        /\ \A e \in NewReads :
             /\ OpenIn(hw, opened, sources[e.source].address)
             /\ OpenIn(hw', opened', sources[e.source].address) ]_vars

\* the type of a channel is written to a board that was never opened
WriteToUnopened ==
    \E a \in HwAddr : hw.tcWrites[a][0] > 0 /\ hw.openCalls[a] = 0

(* ======================= claims: cancellation, continued ================== *)
\* the handler has cleared the flag of a streaming get
StreamFlagCleared == mode = "stream" /\ ~g_running

\* C34: in the streaming loop, once the handler has cleared the running
\* flag, at most one further tick is printed (the one in progress), no new
\* tick is started, and the loop then closes every board and returns
C34_CancelledStreamStops ==
    /\ [](StreamFlagCleared =>
            ticksOut <= sigInfo.ticks + (IF SignalInTick THEN 1 ELSE 0))
    /\ [][ (StreamFlagCleared /\ pc' = "s_alloc") => pc = "s_alloc" ]_vars
    /\ (StreamFlagCleared ~> (pc = "done" /\ hw.isOpen = {} /\ opened = {}))
\* a signal while the first tick was being printed: that tick is the only
\* one, the boards are closed and stream_channels has returned 0
C34_Witness ==
    /\ StreamCancelled
    /\ sigInfo.pc = "s_output" /\ sigInfo.ticks = 0 /\ sigInfo.outLen = 1
    /\ Len(sources) = 2
    /\ ticksOut = 1 /\ Len(out) = 2
    /\ result = 0
    /\ hw.everOpen # {} /\ hw.isOpen = {}

\* the bridge is in its read loop (bridge.c:233-272)
InReadLoop == mode = "fuse" /\ pc \in {"f_check", "f_fgets", "f_line", "f_acquire"}
\* fgets is blocked on the empty pipe of a running child although the flag
\* has been cleared
BlockedAfterCancel ==
    /\ mode = "fuse" /\ pc = "f_fgets" /\ ~g_running
    /\ pipe = << >> /\ WriteEndOpen

\* C35: a shutdown signal handled while the bridge is in its read loop,
\* also between the test of the flag and the start of the blocking read,
\* makes the loop exit, whether or not the child writes another line or
\* closes its output
C35_SignalEndsLoop == (InReadLoop /\ ~g_running) ~> ~InReadLoop

\* the read loop of the bridge has ended after a handled signal
LoopCancelled ==
    mode = "fuse" /\ ~g_running /\ pc \in {"f_fclose", "f_wait", "f_free"}
\* waitpid is blocked on a child that is still running
BlockedInWaitpid == LoopCancelled /\ pc = "f_wait" /\ child = "running"

\* C36: after the read loop of the bridge has ended because of cancellation,
\* bridge_run returns and the boards are closed, whether or not the child
\* terminates by itself
C36_CancelledBridgeReturns == LoopCancelled ~> (pc = "done" /\ hw.isOpen = {})

(* ======================= claims: line filtering, continued ================ *)
\* the child lines the bridge has taken from the pipe up to their newline
LinesTaken == written - Cardinality({ k \in 1 .. Len(pipe) : pipe[k] = NL })
\* the output line o is the bridge's rendering of the child line l: the same
\* bytes, or the printed JSON value of l
RendersLine(o, l) ==
    IF o.kind = "raw" THEN o.bytes = l
    ELSE cJSON_Parse(l).type # "invalid" /\ o.type = cJSON_Parse(l).type

\* C37: until its read loop exits the bridge prints exactly one output line
\* for each line the child produced, in the same order: between two
\* iterations the output holds one line per child line taken, the k-th
\* output line rendering the k-th child line
C37_OneOutputPerChildLine ==
    (mode = "fuse" /\ pc = "f_check") =>
        /\ Len(out) = LinesTaken
        /\ \A k \in 1 .. Len(out) : RendersLine(out[k], script[k])
\* two short child lines, each printed once, in the order written
TwoLinesInOrder ==
    /\ mode = "fuse" /\ pc = "f_check"
    /\ written = 2 /\ pipe = << >> /\ Len(out) = 2
    /\ script = << << "x" >>, << "{", "m", "}" >> >>
    /\ out[1].kind = "raw" /\ out[2].type = "object"
====
